---- MODULE Spec2Model ----
(***************************************************************************)
(* Transfer engine of RomM2SteamDeck: the request handlers                 *)
(* api_download_rom, api_cancel_download, api_download_progress, the       *)
(* background tasks download_standard_rom_async and                        *)
(* download_with_extraction_async, and the settings handlers that write    *)
(* the configuration the tasks read.  Record store and reconciliation:     *)
(* record_download, sync_downloads_with_filesystem, api_sync_downloads     *)
(* and api_delete_download over the downloads table and the disk.          *)
(*                                                                         *)
(* Spec: one transfer, one stream, the settings handlers.                  *)
(* LiveSpec: Spec with fair scheduling of the transfer's steps.            *)
(* StoreSpec: sync and delete requests while the user changes the disk.    *)
(* PairSpec: two transfers side by side.                                   *)
(* StreamSpec: one transfer watched by two streams.                        *)
(* RestartSpec: an item started again while a stream watches it.           *)
(* BodySpec: the body of downloadRom and the tasks' code behind the call,  *)
(* with the call made as the method declares it.                           *)
(* PartialSpec: a direct transfer with sync requests around it.            *)
(* StoreErrorSpec: BodySpec with a record store whose writes may fail.     *)
(* CursorSpec: two threads inside the database class on its one cursor.    *)
(*                                                                         *)
(* Python dicts are functions whose DOMAIN is the set of keys present.     *)
(* Path and folder strings are sequences of characters.                    *)
(***************************************************************************)
EXTENDS Integers, Sequences, FiniteSets, TLC

\* ------------------------------------------------------------------ bounds
NumItems == 2        \* rom ids known to the catalog
MaxTransfers == 1    \* api_download_rom requests served in one behaviour
RomChunks == 2       \* fs_size_bytes of every catalog item, in chunks
MaxSettings == 1     \* settings requests served in one behaviour
MaxEntries == 3      \* entries the user keeps in the rom folder and the install directory
MaxStreams == 1      \* api_download_progress streams open at a time

Items == 41..(40 + NumItems)
UnknownRom == 41 + NumItems
Transfers == 1..MaxTransfers
\* the request and thread slots: one more than Spec serves, for the
\* specification of two transfers
Slots == 1..(MaxTransfers + 1)
\* the stream slots: one more than Spec serves, for the specification of
\* two streams
Streams == 1..MaxStreams
StreamSlots == 1..(MaxStreams + 1)

\* ------------------------------------------------------- strings and dicts
Whitespace == {" "}

NoPath == <<>>
BlankPath == <<" ">>
RomsPath == <<"r">>
StagePath == <<"s">>
InstallPath == <<"i">>
OtherPath == <<"x">>
\* the values the settings forms and the download request carry
RomFolders == {NoPath, BlankPath, RomsPath}
InstallPathLists == {<<>>, <<NoPath>>, <<InstallPath>>}
StagingPaths == {NoPath, StagePath}
SelectedPaths == {NoPath, OtherPath}

RECURSIVE lstrip(_)
lstrip(s) ==
  IF s = <<>> THEN s
  ELSE IF Head(s) \in Whitespace THEN lstrip(Tail(s)) ELSE s

RECURSIVE rstrip(_)
rstrip(s) ==
  IF s = <<>> THEN s
  ELSE IF s[Len(s)] \in Whitespace THEN rstrip(SubSeq(s, 1, Len(s) - 1)) ELSE s

strip(s) == rstrip(lstrip(s))

\* d[k] = v
Put(d, k, v) == [x \in (DOMAIN d) \cup {k} |-> IF x = k THEN v ELSE d[x]]
\* d.pop(k, None)
Pop(d, k) == [x \in (DOMAIN d) \ {k} |-> d[x]]
EmptyDict == [x \in {} |-> 0]
\* os.path.join(dir, name): no separator after an empty dir or after one
\* that ends with it
join(dir, name) ==
  IF dir = <<>> THEN <<name>>
  ELSE IF dir[Len(dir)] = "/" THEN dir \o <<name>> ELSE dir \o <<"/", name>>
\* d.update(fields)
Update(d, fields) == fields @@ d

\* ---------------------------------------------------------- file names
\* the characters of the names that the catalog and the disk carry
Spelling ==
  [n \in {"Game.zip", "game.zip", "game", "GAME", "Game!", "rom.bin", "Rom", "notes.txt",
          "Game.7z"} |->
     CASE n = "Game.zip" -> <<"G", "a", "m", "e", ".", "z", "i", "p">>
       [] n = "game.zip" -> <<"g", "a", "m", "e", ".", "z", "i", "p">>
       [] n = "game" -> <<"g", "a", "m", "e">>
       [] n = "GAME" -> <<"G", "A", "M", "E">>
       [] n = "Game!" -> <<"G", "a", "m", "e", "!">>
       [] n = "rom.bin" -> <<"r", "o", "m", ".", "b", "i", "n">>
       [] n = "Rom" -> <<"R", "o", "m">>
       [] n = "notes.txt" -> <<"n", "o", "t", "e", "s", ".", "t", "x", "t">>
       [] n = "Game.7z" -> <<"G", "a", "m", "e", ".", "7", "z">>]

UpperCase == ("G" :> "g") @@ ("A" :> "a") @@ ("M" :> "m") @@ ("E" :> "e") @@ ("R" :> "r")
LowerCase == {"a", "b", "e", "g", "i", "m", "n", "o", "p", "r", "s", "t", "x", "z"}
Digits == {"7"}

\* str.lower
lower(s) == [i \in 1..Len(s) |-> IF s[i] \in DOMAIN UpperCase THEN UpperCase[s[i]] ELSE s[i]]
\* str.isalnum of one character
isalnum(c) == c \in LowerCase \/ c \in DOMAIN UpperCase \/ c \in Digits
\* str.endswith
endswith(s, suffix) ==
  Len(suffix) <= Len(s) /\ SubSeq(s, Len(s) - Len(suffix) + 1, Len(s)) = suffix

\* os.path.splitext(name)[0]: cut at the last dot, unless only dots precede it
LastDot(s) == IF \E i \in 1..Len(s) : s[i] = "."
              THEN CHOOSE i \in 1..Len(s) : s[i] = "." /\ \A j \in (i + 1)..Len(s) : s[j] # "."
              ELSE 0
splitext(s) ==
  LET d == LastDot(s) IN
    IF d > 0 /\ \E j \in 1..(d - 1) : s[j] # "." THEN SubSeq(s, 1, d - 1) ELSE s

\* sanitize_for_match: lowercase, keep letters, digits and spaces, strip
sanitize_for_match(s) ==
  strip(SelectSeq(lower(s), LAMBDA c : isalnum(c) \/ c = " "))

\* ------------------------------------------------------------ the catalog
\* romm.getRomByID: the catalog's item record, or None for an unknown id
HasRom(rid) == rid \in Items
Rom(rid) ==
  [id |-> rid,
   name |-> IF rid = 41 THEN "Game!" ELSE "Rom",
   fs_name |-> IF rid = 41 THEN "Game.zip" ELSE "rom.bin",
   platform_id |-> "platform",
   fs_size_bytes |-> RomChunks]
\* romm.getRomsByPlatform: the platform's items, none when the catalog has
\* none or the request failed
RomLists == {[i \in 1..n |-> Rom(40 + i)] : n \in 0..NumItems}

\* ----------------------------------------------------- downloadRom's call
\* the parameters RommAPIHelper.downloadRom declares
DownloadRomParams == {"self", "romID", "romFilename", "download_path", "progress_callback"}
\* the keyword arguments the two tasks pass to it
DownloadRomKeywords == {"progress_callback", "cancel_event"}
\* Python binds the arguments before the body runs; a keyword that names no
\* parameter raises TypeError and the body never starts
BindsArguments(params, keywords) == keywords \subseteq params

VARIABLES
  platforms_matching,      \* the platform's row: rom_folder, auto_extract, install_paths
  config,                  \* config table: download_staging_path, windows_download_path
  content,                 \* what the catalog's content endpoint serves: HTTP status, archive intact
  download_progress,       \* dict rom_id -> Transfer State
  download_cancel_events,  \* dict rom_id -> event (named by the transfer that made it)
  event_set,               \* threading.Event flag of each transfer's event
  downloads,               \* downloads table: its rows
  fs,                      \* directories that exist on disk
  files,                   \* regular files that exist on disk: dict path -> size
  result,                  \* the response of the last sync or delete request
  req,                     \* api_download_rom handler of each transfer
  task,                    \* background thread of each transfer
  stream,                  \* the api_download_progress generator of each stream
  settings_writes,         \* settings requests served so far
  last_access,             \* whether the last read or write of the two dicts was made
                           \* inside `with download_progress_lock` ("locked") or
                           \* outside it ("unlocked"); "locked_io" when the block
                           \* that held the lock also did the step's I/O
  cursor,                  \* the one sqlite3 cursor of the RomM2SteamDeckDatabase singleton
  db_call                  \* the database call each thread is in

vars == <<platforms_matching, config, content, download_progress,
          download_cancel_events, event_set, downloads, fs, files, result,
          req, task, stream, settings_writes, last_access, cursor, db_call>>

IdleReq == [pc |-> "idle", rom_id |-> 0, auto_extract |-> FALSE,
            install_path |-> NoPath, staging_path |-> NoPath]
\* a thread and the locals of its task and of downloadRom
NoTask == [pc |-> "none", folder |-> NoPath, exc |-> "none",
           total_size |-> 0, downloaded |-> 0, chunk |-> 0, saved_filename |-> "",
           skipped |-> FALSE,
           existing_items |-> {}, idx |-> 0, extraction_commands |-> <<>>, cmd |-> 0,
           ran |-> <<>>, extract_success |-> FALSE, extract_message |-> "",
           game_folder |-> NoPath, downloaded_file |-> NoPath]
\* a cursor that has executed nothing; a thread outside the database class
NoCursor == [rows |-> {}, description |-> <<>>]
NoCall == [pc |-> "idle", query |-> [table |-> "", where |-> "", value |-> 0],
           rows |-> {}, result |-> {}, seen |-> {}]
ClosedStream == [pc |-> "closed", rom_id |-> 0, sent |-> "none"]
NoResult == [op |-> "none"]

\* an installation whose platform row and staging path were written by the
\* settings handlers; the dicts and tables are empty
Init ==
  /\ platforms_matching \in [rom_folder : RomFolders, auto_extract : BOOLEAN,
                              install_paths : InstallPathLists]
  /\ \E p \in StagingPaths :
       config = [download_staging_path |-> p, windows_download_path |-> p]
  /\ settings_writes = 0
  /\ content \in {[status |-> 404, intact |-> FALSE], [status |-> 200, intact |-> FALSE],
                 [status |-> 200, intact |-> TRUE]}
  /\ download_progress = EmptyDict
  /\ download_cancel_events = EmptyDict
  /\ event_set = [t \in Slots |-> FALSE]
  /\ downloads = {}
  /\ fs = {}
  /\ files = EmptyDict
  /\ result = NoResult
  /\ req = [t \in Slots |-> IdleReq]
  /\ task = [t \in Slots |-> NoTask]
  /\ stream = [s \in StreamSlots |-> ClosedStream]
  /\ last_access = "none"
  /\ cursor = NoCursor
  /\ db_call = [c \in Slots |-> NoCall]

\* ------------------------------------------------------ python helpers
\* a or b, for strings
Or(a, b) == IF a # <<>> THEN a ELSE b

TerminalStatuses == {"complete", "error", "extracted", "cancelled"}

StatusOf(rid) == IF rid \in DOMAIN download_progress THEN download_progress[rid].status ELSE "absent"

\* get_platform_config: the row as the handlers see it
get_platform_config == platforms_matching
\* get_platform_folder: the steamdeck_platform_name column
get_platform_folder == platforms_matching.rom_folder

\* the validation without the .strip() on the rom folder
ConfigurationError_NoStrip(cfg) ==
  IF cfg.auto_extract
  THEN cfg.install_paths = <<>>
  ELSE cfg.rom_folder = <<>>

\* api_download_rom's path validation: TRUE when the request is answered 400
ConfigurationError(cfg) ==
  IF cfg.auto_extract
  THEN cfg.install_paths = <<>>
  ELSE cfg.rom_folder = <<>> \/ strip(cfg.rom_folder) = <<>>

StartingState(rom) ==
  [status |-> "starting", progress |-> 0, downloaded |-> 0,
   total |-> rom.fs_size_bytes, filename |-> rom.fs_name]

ErrorState(msg) == [status |-> "error", error |-> msg]

\* ------------------------------------------------- the downloads table
\* SELECT * FROM downloads WHERE rom_id = ?
RowsOf(table, rid) == {row \in table : row.rom_id = rid}
\* get_download_info: results[0] if results else None
is_downloaded(rid) == RowsOf(downloads, rid) # {}
get_download_info(rid) == CHOOSE row \in downloads : row.rom_id = rid

\* a plain INSERT into a table without the UNIQUE constraint
insert_or_replace_NoReplace(table, row) == table \cup {row}

\* INSERT OR REPLACE: rom_id is UNIQUE, the row in conflict is deleted first
insert_or_replace(table, row) == {r \in table : r.rom_id # row.rom_id} \cup {row}

record_download(table, rom_id, rom_name, filename, file_path, platform_id, file_size) ==
  insert_or_replace(table, [rom_id |-> rom_id, rom_name |-> rom_name, filename |-> filename,
                            file_path |-> file_path, platform_id |-> platform_id,
                            file_size |-> file_size])

\* DELETE FROM downloads WHERE rom_id = ?
remove_download_record(table, rid) == {r \in table : r.rom_id # rid}

\* ------------------------------------------------------------- the disk
\* os.path.exists, os.path.isdir, entry.is_file
exists(p) == p \in fs \/ p \in DOMAIN files
isdir(p) == p \in fs
isfile(p) == p \in DOMAIN files
\* os.scandir(dir): the names of the entries of dir
scandir(dir) == {n \in DOMAIN Spelling : exists(join(dir, n))}
\* the orders in which a directory listing may come
Perms(S) == {f \in [1..Cardinality(S) -> S] : \A i, j \in DOMAIN f : f[i] = f[j] => i = j}
IsPrefix(p, q) == Len(p) <= Len(q) /\ SubSeq(q, 1, Len(p)) = p

\* --------------------------------------------------- api_download_rom
\* the handler up to the registration of the Transfer State
StartValidate(t, rid, sel) ==
  /\ req[t].pc = "idle"
  /\ \A u \in Slots : u < t => req[u].pc # "idle"
  /\ LET cfg == get_platform_config IN
     IF ~HasRom(rid)
     THEN /\ req' = [req EXCEPT ![t] = [IdleReq EXCEPT !.pc = "returned_404", !.rom_id = rid]]
          /\ UNCHANGED <<download_progress, last_access>>
     ELSE IF ConfigurationError(cfg)
     THEN /\ req' = [req EXCEPT ![t] = [IdleReq EXCEPT !.pc = "returned_400", !.rom_id = rid]]
          /\ UNCHANGED <<download_progress, last_access>>
     ELSE /\ req' = [req EXCEPT ![t] =
                      [pc |-> "registered_progress", rom_id |-> rid,
                       auto_extract |-> cfg.auto_extract,
                       install_path |-> IF cfg.auto_extract
                                        THEN (IF sel # <<>> THEN sel ELSE cfg.install_paths[1])
                                        ELSE NoPath,
                       staging_path |-> NoPath]]
          /\ download_progress' = Put(download_progress, rid, StartingState(Rom(rid)))
          /\ last_access' = "locked"
  /\ UNCHANGED <<platforms_matching, config, content, download_cancel_events,
                 event_set, downloads, fs, task, stream, settings_writes,
                 files, result, cursor, db_call>>

\* the event is created but never stored in download_cancel_events
StartRegisterCancel_NoEntry(t) ==
  /\ req[t].pc = "registered_progress"
  /\ event_set' = [event_set EXCEPT ![t] = FALSE]
  /\ req' = [req EXCEPT ![t].pc = "registered_cancel"]
  /\ UNCHANGED <<platforms_matching, config, content, download_progress,
                 download_cancel_events, downloads, fs, task, stream, settings_writes,
                 files, result, last_access, cursor, db_call>>

\* cancel_event = threading.Event(); download_cancel_events[rom_id] = cancel_event
StartRegisterCancel(t) ==
  /\ req[t].pc = "registered_progress"
  /\ event_set' = [event_set EXCEPT ![t] = FALSE]
  /\ download_cancel_events' = Put(download_cancel_events, req[t].rom_id, t)
  /\ req' = [req EXCEPT ![t].pc = "registered_cancel"]
  /\ last_access' = "unlocked"
  /\ UNCHANGED <<platforms_matching, config, content, download_progress,
                 downloads, fs, task, stream, settings_writes,
                 files, result, cursor, db_call>>

\* thread.start() and the 200 response
StartLaunch(t) ==
  /\ req[t].pc = "registered_cancel"
  /\ req' = [req EXCEPT ![t].pc = "returned_200",
                        ![t].staging_path =
                           IF req[t].auto_extract
                           THEN Or(config.download_staging_path, config.windows_download_path)
                           ELSE NoPath]
  /\ task' = [task EXCEPT ![t].pc = "begin"]
  /\ UNCHANGED <<platforms_matching, config, content, download_progress,
                 download_cancel_events, event_set, downloads, fs, stream, settings_writes,
                 files, result, last_access, cursor, db_call>>

\* ------------------------------------------------ api_cancel_download
\* cancel_event = download_cancel_events.get(rom_id); if cancel_event: ... 200, else 404
CancelFound(rid) == rid \in DOMAIN download_cancel_events

CancelTransfer(rid) ==
  /\ IF CancelFound(rid)
     THEN event_set' = [event_set EXCEPT ![download_cancel_events[rid]] = TRUE]
     ELSE UNCHANGED event_set
  /\ last_access' = "unlocked"
  /\ UNCHANGED <<platforms_matching, config, content, download_progress,
                 download_cancel_events, downloads, fs, req, task, stream, settings_writes,
                 files, result, cursor, db_call>>

\* ---------------------------------------------- api_download_progress
PollOpen(s, rid) ==
  /\ stream[s].pc = "closed"
  /\ \A u \in StreamSlots : u < s => stream[u].pc # "closed"
  /\ stream' = [stream EXCEPT ![s] = [pc |-> "read", rom_id |-> rid, sent |-> "none"]]
  /\ UNCHANGED <<platforms_matching, config, content, download_progress,
                 download_cancel_events, event_set, downloads, fs, req, task, settings_writes,
                 files, result, last_access, cursor, db_call>>

\* one turn of the loop: the locked read, the yield of the snapshot, the
\* test for a final status; nothing is sent while the item has no entry
PollRead(s) ==
  /\ stream[s].pc = "read"
  /\ stream[s].rom_id \in DOMAIN download_progress
  /\ LET progress == download_progress[stream[s].rom_id] IN
       stream' = [stream EXCEPT ![s].sent = progress.status,
                                ![s].pc = IF progress.status \in TerminalStatuses
                                          THEN "pop" ELSE "read"]
  /\ last_access' = "locked"
  /\ UNCHANGED <<platforms_matching, config, content, download_progress,
                 download_cancel_events, event_set, downloads, fs, req, task, settings_writes,
                 files, result, cursor, db_call>>

\* after the sleep: download_progress.pop(rom_id, None); break
PollPop(s) ==
  /\ stream[s].pc = "pop"
  /\ download_progress' = Pop(download_progress, stream[s].rom_id)
  /\ stream' = [stream EXCEPT ![s] = ClosedStream]
  /\ last_access' = "locked"
  /\ UNCHANGED <<platforms_matching, config, content, download_cancel_events,
                 event_set, downloads, fs, req, task, settings_writes,
                 files, result, cursor, db_call>>

\* --------------------------------------- download_standard_rom_async
IsStd(t) == ~req[t].auto_extract
IsExt(t) == req[t].auto_extract

\* the early return without the error status
StdBegin_SilentReturn(t) ==
  /\ IsStd(t) /\ task[t].pc = "begin"
  /\ LET platform_folder == get_platform_folder IN
     IF platform_folder = <<>>
     THEN task' = [task EXCEPT ![t].pc = "pop_early"]
     ELSE task' = [task EXCEPT ![t].pc = "makedirs", ![t].folder = platform_folder]
  /\ UNCHANGED <<platforms_matching, config, content, download_progress,
                 download_cancel_events, event_set, downloads, fs, req, stream,
                 settings_writes, files, result, last_access, cursor, db_call>>

\* platform_folder = get_platform_folder(platform_id); the early error return
StdBegin(t) ==
  /\ IsStd(t) /\ task[t].pc = "begin"
  /\ LET platform_folder == get_platform_folder IN
     IF platform_folder = <<>>
     THEN /\ download_progress' = Put(download_progress, req[t].rom_id,
                                      ErrorState("Platform folder not configured"))
          /\ last_access' = "locked"
          /\ task' = [task EXCEPT ![t].pc = "pop_early"]
     ELSE /\ task' = [task EXCEPT ![t].pc = "makedirs", ![t].folder = platform_folder]
          /\ UNCHANGED <<download_progress, last_access>>
  /\ UNCHANGED <<platforms_matching, config, content, download_cancel_events,
                 event_set, downloads, fs, req, stream, settings_writes,
                 files, result, cursor, db_call>>

\* download_cancel_events.pop(rom_id, None); return
StdPopEarly(t) ==
  /\ IsStd(t) /\ task[t].pc = "pop_early"
  /\ download_cancel_events' = Pop(download_cancel_events, req[t].rom_id)
  /\ task' = [task EXCEPT ![t].pc = "finally"]
  /\ last_access' = "unlocked"
  /\ UNCHANGED <<platforms_matching, config, content, download_progress,
                 event_set, downloads, fs, req, stream, settings_writes,
                 files, result, cursor, db_call>>

\* os.makedirs(platform_folder, exist_ok=True): creates the folder or raises
StdMakedirs(t) ==
  /\ IsStd(t) /\ task[t].pc = "makedirs"
  /\ \E ok \in BOOLEAN :
       IF ok
       THEN /\ fs' = fs \cup {task[t].folder}
            /\ task' = [task EXCEPT ![t].pc = "call"]
       ELSE /\ task' = [task EXCEPT ![t].pc = "except", ![t].exc = "OSError"]
            /\ UNCHANGED fs
  /\ UNCHANGED <<platforms_matching, config, content, download_progress,
                 download_cancel_events, event_set, downloads, req, stream, settings_writes,
                 files, result, last_access, cursor, db_call>>

\* romm.downloadRom(rom_id, filename, platform_folder + "/",
\*                  progress_callback=..., cancel_event=cancel_event)
StdCall(t) ==
  /\ IsStd(t) /\ task[t].pc = "call"
  /\ ~BindsArguments(DownloadRomParams, DownloadRomKeywords)
  /\ task' = [task EXCEPT ![t].pc = "except", ![t].exc = "TypeError"]
  /\ UNCHANGED <<platforms_matching, config, content, download_progress,
                 download_cancel_events, event_set, downloads, fs, req, stream, settings_writes,
                 files, result, last_access, cursor, db_call>>

\* the except clause tries the download once more instead of recording the error
StdExcept_Retry(t) ==
  /\ IsStd(t) /\ task[t].pc = "except"
  /\ task' = [task EXCEPT ![t].pc = "call"]
  /\ UNCHANGED <<platforms_matching, config, content, download_progress,
                 download_cancel_events, event_set, downloads, fs, req, stream, settings_writes,
                 files, result, last_access, cursor, db_call>>

\* except Exception as e: download_progress[rom_id] = {'status': 'error', 'error': str(e)}
StdExcept(t) ==
  /\ IsStd(t) /\ task[t].pc = "except"
  /\ download_progress' = Put(download_progress, req[t].rom_id, ErrorState(task[t].exc))
  /\ task' = [task EXCEPT ![t].pc = "finally"]
  /\ last_access' = "locked"
  /\ UNCHANGED <<platforms_matching, config, content, download_cancel_events,
                 event_set, downloads, fs, req, stream, settings_writes,
                 files, result, cursor, db_call>>

\* the finally clause pops the wrong dict
StdFinally_PopsProgress(t) ==
  /\ IsStd(t) /\ task[t].pc = "finally"
  /\ download_progress' = Pop(download_progress, req[t].rom_id)
  /\ task' = [task EXCEPT ![t].pc = "done"]
  /\ last_access' = "unlocked"
  /\ UNCHANGED <<platforms_matching, config, content, download_cancel_events,
                 event_set, downloads, fs, req, stream, settings_writes,
                 files, result, cursor, db_call>>

\* the finally clause empties the whole map
StdFinally_ClearsAll(t) ==
  /\ IsStd(t) /\ task[t].pc = "finally"
  /\ download_cancel_events' = EmptyDict
  /\ task' = [task EXCEPT ![t].pc = "done"]
  /\ last_access' = "unlocked"
  /\ UNCHANGED <<platforms_matching, config, content, download_progress,
                 event_set, downloads, fs, req, stream, settings_writes,
                 files, result, cursor, db_call>>

\* finally: download_cancel_events.pop(rom_id, None)
StdFinally(t) ==
  /\ IsStd(t) /\ task[t].pc = "finally"
  /\ download_cancel_events' = Pop(download_cancel_events, req[t].rom_id)
  /\ task' = [task EXCEPT ![t].pc = "done"]
  /\ last_access' = "unlocked"
  /\ UNCHANGED <<platforms_matching, config, content, download_progress,
                 event_set, downloads, fs, req, stream, settings_writes,
                 files, result, cursor, db_call>>

\* ------------------------------------- download_with_extraction_async
\* download_dest = staging_path if staging_path else install_path; the two
\* early error returns, both inside the try
ExtBegin(t) ==
  /\ IsExt(t) /\ task[t].pc = "begin"
  /\ LET download_dest == Or(req[t].staging_path, req[t].install_path) IN
     IF download_dest = <<>>
     THEN /\ download_progress' = Put(download_progress, req[t].rom_id,
                                      ErrorState("Download path not configured"))
          /\ last_access' = "locked"
          /\ task' = [task EXCEPT ![t].pc = "finally"]
     ELSE IF req[t].install_path = <<>>
     THEN /\ download_progress' = Put(download_progress, req[t].rom_id,
                                      ErrorState("Install path not configured for this platform"))
          /\ last_access' = "locked"
          /\ task' = [task EXCEPT ![t].pc = "finally"]
     ELSE /\ task' = [task EXCEPT ![t].pc = "makedirs", ![t].folder = download_dest]
          /\ UNCHANGED <<download_progress, last_access>>
  /\ UNCHANGED <<platforms_matching, config, content, download_cancel_events,
                 event_set, downloads, fs, req, stream, settings_writes,
                 files, result, cursor, db_call>>

\* os.makedirs(download_dest); if staging_path: os.makedirs(install_path)
ExtMakedirs(t) ==
  /\ IsExt(t) /\ task[t].pc = "makedirs"
  /\ \E made \in 0..2 :
       /\ made = 2 => req[t].staging_path # <<>>
       /\ fs' = fs \cup (IF made >= 1 THEN {task[t].folder} ELSE {})
                   \cup (IF made = 2 THEN {req[t].install_path} ELSE {})
       /\ \E raised \in BOOLEAN :
            /\ ~raised => made = (IF req[t].staging_path # <<>> THEN 2 ELSE 1)
            /\ raised => made < (IF req[t].staging_path # <<>> THEN 2 ELSE 1)
            /\ task' = IF raised
                       THEN [task EXCEPT ![t].pc = "except", ![t].exc = "OSError"]
                       ELSE [task EXCEPT ![t].pc = "call"]
  /\ UNCHANGED <<platforms_matching, config, content, download_progress,
                 download_cancel_events, event_set, downloads, req, stream, settings_writes,
                 files, result, last_access, cursor, db_call>>

\* romm.downloadRom(rom_id, filename, download_dest + "/",
\*                  progress_callback=..., cancel_event=cancel_event)
ExtCall(t) ==
  /\ IsExt(t) /\ task[t].pc = "call"
  /\ ~BindsArguments(DownloadRomParams, DownloadRomKeywords)
  /\ task' = [task EXCEPT ![t].pc = "except", ![t].exc = "TypeError"]
  /\ UNCHANGED <<platforms_matching, config, content, download_progress,
                 download_cancel_events, event_set, downloads, fs, req, stream, settings_writes,
                 files, result, last_access, cursor, db_call>>

ExtExcept(t) ==
  /\ IsExt(t) /\ task[t].pc = "except"
  /\ download_progress' = Put(download_progress, req[t].rom_id, ErrorState(task[t].exc))
  /\ task' = [task EXCEPT ![t].pc = "finally"]
  /\ last_access' = "locked"
  /\ UNCHANGED <<platforms_matching, config, content, download_cancel_events,
                 event_set, downloads, fs, req, stream, settings_writes,
                 files, result, cursor, db_call>>

\* the task ends without its finally clause
ExtFinally_NoPop(t) ==
  /\ IsExt(t) /\ task[t].pc = "finally"
  /\ task' = [task EXCEPT ![t].pc = "done"]
  /\ UNCHANGED <<platforms_matching, config, content, download_progress,
                 download_cancel_events, event_set, downloads, fs, req, stream, settings_writes,
                 files, result, last_access, cursor, db_call>>

\* finally: download_cancel_events.pop(rom_id, None)
ExtFinally(t) ==
  /\ IsExt(t) /\ task[t].pc = "finally"
  /\ download_cancel_events' = Pop(download_cancel_events, req[t].rom_id)
  /\ task' = [task EXCEPT ![t].pc = "done"]
  /\ last_access' = "unlocked"
  /\ UNCHANGED <<platforms_matching, config, content, download_progress,
                 event_set, downloads, fs, req, stream, settings_writes,
                 files, result, cursor, db_call>>

\* ------------------------------------------- RommAPIHelper.downloadRom
\* the keyword arguments of the tasks' call that the method declares
DeclaredKeywords == DownloadRomKeywords \cap DownloadRomParams

\* the call made with the keywords the method declares: the body runs
StdCallDeclared(t) ==
  /\ IsStd(t) /\ task[t].pc = "call"
  /\ BindsArguments(DownloadRomParams, DeclaredKeywords)
  /\ task' = [task EXCEPT ![t].pc = "request"]
  /\ UNCHANGED <<platforms_matching, config, content, download_progress,
                 download_cancel_events, event_set, downloads, fs, files, result, req,
                 stream, settings_writes, last_access, cursor, db_call>>

ExtCallDeclared(t) ==
  /\ IsExt(t) /\ task[t].pc = "call"
  /\ BindsArguments(DownloadRomParams, DeclaredKeywords)
  /\ task' = [task EXCEPT ![t].pc = "request"]
  /\ UNCHANGED <<platforms_matching, config, content, download_progress,
                 download_cancel_events, event_set, downloads, fs, files, result, req,
                 stream, settings_writes, last_access, cursor, db_call>>

\* int((part / whole) * 100)
percent(part, whole) == (part * 100) \div whole

\* the callback publishes the bytes still to come
update_progress_Remaining(progress_map, rom_id, downloaded, total, pct) ==
  IF rom_id \in DOMAIN progress_map
  THEN Put(progress_map, rom_id,
           Update(progress_map[rom_id],
                  [status |-> "downloading", progress |-> pct,
                   downloaded |-> total - downloaded, total |-> total]))
  ELSE progress_map

\* update_progress: the callback of the chunk loop
update_progress(progress_map, rom_id, downloaded, total, pct) ==
  IF rom_id \in DOMAIN progress_map
  THEN Put(progress_map, rom_id,
           Update(progress_map[rom_id],
                  [status |-> "downloading", progress |-> pct,
                   downloaded |-> downloaded, total |-> total]))
  ELSE progress_map

\* the path downloadRom writes to: download_path is the folder plus "/"
file_path_of(t) == join(task[t].folder \o <<"/">>, task[t].saved_filename)

\* downloadRom without the test for an existing file: the file is opened
\* with "wb", which truncates it, and downloaded again
DownloadRomRequest_Overwrites(t) ==
  /\ task[t].pc = "request"
  /\ LET filename == IF content.disposition # "" THEN content.disposition
                     ELSE Rom(req[t].rom_id).fs_name
         file_path == join(task[t].folder \o <<"/">>, filename)
     IN IF content.status # 200
        THEN /\ task' = [task EXCEPT ![t].pc = "except", ![t].exc = "Download failed"]
             /\ UNCHANGED <<fs, files>>
        ELSE /\ fs' = fs \cup {task[t].folder}
             /\ IF FALSE
                THEN /\ task' = [task EXCEPT ![t].pc = "returned",
                                             ![t].total_size = content.length,
                                             ![t].saved_filename = filename]
                     /\ UNCHANGED files
                ELSE /\ task' = [task EXCEPT ![t].pc = "chunks",
                                             ![t].total_size = content.length,
                                             ![t].saved_filename = filename,
                                             ![t].downloaded = 0, ![t].chunk = 0]
                     /\ files' = Put(files, file_path, 0)
  /\ UNCHANGED <<platforms_matching, config, content, download_progress,
                 download_cancel_events, event_set, downloads, result, req,
                 stream, settings_writes, last_access, cursor, db_call>>

\* requests.get, the status test, the two headers, os.makedirs, the test
\* for an existing file and the open of the new one
DownloadRomRequest(t) ==
  /\ task[t].pc = "request"
  /\ LET filename == IF content.disposition # "" THEN content.disposition
                     ELSE Rom(req[t].rom_id).fs_name
         file_path == join(task[t].folder \o <<"/">>, filename)
     IN IF content.status # 200
        THEN /\ task' = [task EXCEPT ![t].pc = "except", ![t].exc = "Download failed"]
             /\ UNCHANGED <<fs, files>>
        ELSE /\ fs' = fs \cup {task[t].folder}
             /\ IF exists(file_path)
                THEN /\ task' = [task EXCEPT ![t].pc = "returned",
                                             ![t].total_size = content.length,
                                             ![t].saved_filename = filename,
                                             ![t].skipped = TRUE]
                     /\ UNCHANGED files
                ELSE /\ task' = [task EXCEPT ![t].pc = "chunks",
                                             ![t].total_size = content.length,
                                             ![t].saved_filename = filename,
                                             ![t].downloaded = 0, ![t].chunk = 0]
                     /\ files' = Put(files, file_path, 0)
  /\ UNCHANGED <<platforms_matching, config, content, download_progress,
                 download_cancel_events, event_set, downloads, result, req,
                 stream, settings_writes, last_access, cursor, db_call>>

\* one turn of `for chunk in response.iter_content(...)`: the chunk arrives,
\* is written and counted, and the callback runs when a length was declared;
\* or the connection breaks and the read raises
DownloadRomChunk(t) ==
  /\ task[t].pc = "chunks" /\ task[t].chunk < Len(content.body)
  /\ \E arrives \in BOOLEAN :
       IF ~arrives
       THEN /\ task' = [task EXCEPT ![t].pc = "except", ![t].exc = "ConnectionError"]
            /\ UNCHANGED <<files, download_progress, last_access>>
       ELSE LET n == content.body[task[t].chunk + 1]
                downloaded == task[t].downloaded + n
            IN /\ files' = IF file_path_of(t) \in DOMAIN files
                           THEN [files EXCEPT ![file_path_of(t)] = @ + n] ELSE files
               /\ task' = [task EXCEPT ![t].chunk = @ + 1, ![t].downloaded = downloaded]
               /\ IF task[t].total_size > 0
                  THEN /\ download_progress' =
                            update_progress(download_progress, req[t].rom_id, downloaded,
                                            task[t].total_size,
                                            percent(downloaded, task[t].total_size))
                       /\ last_access' = "locked"
                  ELSE UNCHANGED <<download_progress, last_access>>
  /\ UNCHANGED <<platforms_matching, config, content, download_cancel_events,
                 event_set, downloads, fs, result, req, stream, settings_writes,
                 cursor, db_call>>

\* the iterator is exhausted: return {"skipped": False, ...}
DownloadRomReturn(t) ==
  /\ task[t].pc = "chunks" /\ task[t].chunk = Len(content.body)
  /\ task' = [task EXCEPT ![t].pc = "returned"]
  /\ UNCHANGED <<platforms_matching, config, content, download_progress,
                 download_cancel_events, event_set, downloads, fs, files, result, req,
                 stream, settings_writes, last_access, cursor, db_call>>

\* ----------------------- download_standard_rom_async, after the call
CompleteState(message, path) ==
  [status |-> "complete", progress |-> 100, message |-> message, path |-> path]

\* the result carries no 'cancelled' key; file_path = os.path.join(...);
\* record_download(...)
StdRecord(t) ==
  /\ IsStd(t) /\ task[t].pc = "returned"
  /\ LET rom == Rom(req[t].rom_id)
         saved_filename == task[t].saved_filename
         file_path == join(task[t].folder, saved_filename)
     IN downloads' = record_download(downloads, rom.id, rom.name, saved_filename, file_path,
                                     rom.platform_id, rom.fs_size_bytes)
  /\ task' = [task EXCEPT ![t].pc = "recorded"]
  /\ UNCHANGED <<platforms_matching, config, content, download_progress,
                 download_cancel_events, event_set, fs, files, result, req,
                 stream, settings_writes, last_access, cursor, db_call>>

\* download_progress[rom_id] = {'status': 'complete', ...}
StdComplete(t) ==
  /\ IsStd(t) /\ task[t].pc = "recorded"
  /\ download_progress' = Put(download_progress, req[t].rom_id,
                              CompleteState("Downloaded", task[t].folder))
  /\ last_access' = "locked"
  /\ task' = [task EXCEPT ![t].pc = "finally"]
  /\ UNCHANGED <<platforms_matching, config, content, download_cancel_events,
                 event_set, downloads, fs, files, result, req, stream, settings_writes,
                 cursor, db_call>>

\* -------------------- download_with_extraction_async, after the call
ExtractedState(path) ==
  [status |-> "extracted", progress |-> 100, message |-> "Downloaded and extracted",
   path |-> path]

\* the extraction_commands list: the tools in the order they are tried
extraction_commands(sys_platform) ==
  IF sys_platform = "win32"
  THEN <<"ProgramFiles(x86)/7-Zip/7z.exe", "ProgramFiles/7-Zip/7z.exe", "7z", "7zz", "unar">>
  ELSE <<"7z", "7zz", "unar">>
SysPlatforms == {"linux", "win32"}
\* the outcomes of subprocess.run(cmd): FileNotFoundError, another
\* exception, a non-zero return code, return code 0
ToolOutcomes == {"FileNotFoundError", "raised", "nonzero", "zero"}
NotInstalledMessage == "7z not installed - file downloaded but not extracted"

is_zip(saved_filename) == endswith(lower(Spelling[saved_filename]), <<".", "z", "i", "p">>)
is_7z(saved_filename) == endswith(lower(Spelling[saved_filename]), <<".", "7", "z">>)

\* the result carries no 'cancelled' key; downloaded_file = os.path.join(...);
\* download_progress[rom_id].update({'status': 'extracting', ...}), a KeyError
\* when the entry is gone
ExtExtracting(t) ==
  /\ IsExt(t) /\ task[t].pc = "returned"
  /\ IF req[t].rom_id \in DOMAIN download_progress
     THEN /\ download_progress' =
               Put(download_progress, req[t].rom_id,
                   Update(download_progress[req[t].rom_id],
                          [status |-> "extracting", progress |-> 100,
                           message |-> "Extracting..."]))
          /\ task' = [task EXCEPT ![t].pc = "snapshot",
                                  ![t].downloaded_file =
                                     join(task[t].folder, task[t].saved_filename)]
     ELSE /\ task' = [task EXCEPT ![t].pc = "except", ![t].exc = "KeyError"]
          /\ UNCHANGED download_progress
  /\ last_access' = "locked"
  /\ UNCHANGED <<platforms_matching, config, content, download_cancel_events,
                 event_set, downloads, fs, files, result, req, stream, settings_writes,
                 cursor, db_call>>

\* existing_items = set(os.listdir(install_path)) if it is a directory;
\* game_folder = install_path; is_zip, is_7z and, for .7z, the command list
ExtSnapshot(t) ==
  /\ IsExt(t) /\ task[t].pc = "snapshot"
  /\ \E sys_platform \in SysPlatforms :
       task' = [task EXCEPT
                  ![t].existing_items = IF isdir(req[t].install_path)
                                        THEN scandir(req[t].install_path) ELSE {},
                  ![t].extract_success = FALSE,
                  ![t].extract_message = "",
                  ![t].game_folder = req[t].install_path,
                  ![t].extraction_commands =
                     IF ~is_zip(task[t].saved_filename) /\ is_7z(task[t].saved_filename)
                     THEN extraction_commands(sys_platform) ELSE <<>>,
                  ![t].cmd = 1,
                  ![t].idx = 0,
                  ![t].pc = IF is_zip(task[t].saved_filename) THEN "zip"
                            ELSE IF is_7z(task[t].saved_filename) THEN "tools"
                            ELSE "move"]
  /\ UNCHANGED <<platforms_matching, config, content, download_progress,
                 download_cancel_events, event_set, downloads, fs, files, result, req,
                 stream, settings_writes, last_access, cursor, db_call>>

\* zipfile.ZipFile(downloaded_file) and namelist(): raises when the file is
\* no zip archive; an archive without entries is extracted at once
ExtZipOpen(t) ==
  /\ IsExt(t) /\ task[t].pc = "zip"
  /\ IF ~content.intact
     THEN task' = [task EXCEPT ![t].pc = "new_items",
                               ![t].extract_message = "ZIP extraction failed"]
     ELSE IF content.entries = <<>>
     THEN task' = [task EXCEPT ![t].pc = "new_items", ![t].extract_success = TRUE,
                               ![t].extract_message = "Extracted to install_path"]
     ELSE task' = [task EXCEPT ![t].pc = "zip_entry"]
  /\ UNCHANGED <<platforms_matching, config, content, download_progress,
                 download_cancel_events, event_set, downloads, fs, files, result, req,
                 stream, settings_writes, last_access, cursor, db_call>>

\* the loop with zip_ref.extract moved inside the `with` block of the update
ExtZipEntry_ExtractsUnderLock(t) ==
  /\ IsExt(t) /\ task[t].pc = "zip_entry"
  /\ LET file_list == content.entries
         total_files == Len(file_list)
         idx == task[t].idx
         extract_percent == percent(idx + 1, total_files)
     IN \E written \in BOOLEAN :
          IF ~written
          THEN /\ task' = [task EXCEPT ![t].pc = "new_items",
                                       ![t].extract_message = "ZIP extraction failed"]
               /\ UNCHANGED <<fs, download_progress, last_access>>
          ELSE /\ fs' = fs \cup {join(req[t].install_path, file_list[idx + 1])}
               /\ last_access' = "locked_io"
               /\ IF req[t].rom_id \in DOMAIN download_progress
                  THEN /\ download_progress' =
                            Put(download_progress, req[t].rom_id,
                                Update(download_progress[req[t].rom_id],
                                       [status |-> "extracting",
                                        progress |-> extract_percent,
                                        message |-> "Extracting... %"]))
                       /\ task' = IF idx + 1 = total_files
                                  THEN [task EXCEPT
                                          ![t].idx = idx + 1,
                                          ![t].pc = "new_items",
                                          ![t].extract_success = TRUE,
                                          ![t].extract_message = "Extracted to install_path"]
                                  ELSE [task EXCEPT ![t].idx = idx + 1]
                  ELSE /\ task' = [task EXCEPT ![t].pc = "new_items",
                                               ![t].extract_message = "ZIP extraction failed"]
                       /\ UNCHANGED download_progress
  /\ UNCHANGED <<platforms_matching, config, content, download_cancel_events,
                 event_set, downloads, files, result, req, stream, settings_writes,
                 cursor, db_call>>

\* one turn of the loop over file_list: zip_ref.extract, extract_percent and
\* the locked update; an exception of either ends the extraction as failed
ExtZipEntry(t) ==
  /\ IsExt(t) /\ task[t].pc = "zip_entry"
  /\ LET file_list == content.entries
         total_files == Len(file_list)
         idx == task[t].idx
         extract_percent == percent(idx + 1, total_files)
     IN \E written \in BOOLEAN :
          IF ~written
          THEN /\ task' = [task EXCEPT ![t].pc = "new_items",
                                       ![t].extract_message = "ZIP extraction failed"]
               /\ UNCHANGED <<fs, download_progress, last_access>>
          ELSE /\ fs' = fs \cup {join(req[t].install_path, file_list[idx + 1])}
               /\ last_access' = "locked"
               /\ IF req[t].rom_id \in DOMAIN download_progress
                  THEN /\ download_progress' =
                            Put(download_progress, req[t].rom_id,
                                Update(download_progress[req[t].rom_id],
                                       [status |-> "extracting",
                                        progress |-> extract_percent,
                                        message |-> "Extracting... %"]))
                       /\ task' = IF idx + 1 = total_files
                                  THEN [task EXCEPT
                                          ![t].idx = idx + 1,
                                          ![t].pc = "new_items",
                                          ![t].extract_success = TRUE,
                                          ![t].extract_message = "Extracted to install_path"]
                                  ELSE [task EXCEPT ![t].idx = idx + 1]
                  ELSE /\ task' = [task EXCEPT ![t].pc = "new_items",
                                               ![t].extract_message = "ZIP extraction failed"]
                       /\ UNCHANGED download_progress
  /\ UNCHANGED <<platforms_matching, config, content, download_cancel_events,
                 event_set, downloads, files, result, req, stream, settings_writes,
                 cursor, db_call>>

\* the loop without its break: the commands after a successful one run too
ExtRunTool_NoBreak(t) ==
  /\ IsExt(t) /\ task[t].pc = "tools"
  /\ \E outcome \in ToolOutcomes :
       LET cmds == task[t].extraction_commands
           cmd == task[t].cmd
           extract_message ==
             CASE outcome = "zero" -> "Extracted to install_path"
               [] outcome = "nonzero" -> "Extraction failed: stderr"
               [] outcome = "raised" -> "Extraction failed: exception"
               [] outcome = "FileNotFoundError" -> task[t].extract_message
       IN IF outcome = "zero"
          THEN /\ task' = [task EXCEPT ![t].ran = <<cmds[cmd], outcome>>,
                                       ![t].extract_success = TRUE,
                                       ![t].extract_message = extract_message,
                                       ![t].cmd = IF cmd < Len(cmds) THEN cmd + 1 ELSE cmd,
                                       ![t].pc = IF cmd < Len(cmds) THEN "tools"
                                                 ELSE "new_items"]
               /\ fs' = fs \cup {join(req[t].install_path, content.entries[i]) :
                                   i \in DOMAIN content.entries}
          ELSE /\ task' = IF cmd < Len(cmds)
                          THEN [task EXCEPT ![t].ran = <<cmds[cmd], outcome>>,
                                            ![t].extract_message = extract_message,
                                            ![t].cmd = cmd + 1]
                          ELSE [task EXCEPT ![t].ran = <<cmds[cmd], outcome>>,
                                            ![t].extract_message =
                                               IF extract_message = ""
                                               THEN NotInstalledMessage
                                               ELSE extract_message,
                                            ![t].pc = "record"]
               /\ UNCHANGED fs
  /\ UNCHANGED <<platforms_matching, config, content, download_progress,
                 download_cancel_events, event_set, downloads, files, result, req,
                 stream, settings_writes, last_access, cursor, db_call>>

\* one turn of `for cmd in extraction_commands`: subprocess.run(cmd) and what
\* follows from its outcome; after the last command, the message for the
\* case that none left one
ExtRunTool(t) ==
  /\ IsExt(t) /\ task[t].pc = "tools"
  /\ \E outcome \in ToolOutcomes :
       LET cmds == task[t].extraction_commands
           cmd == task[t].cmd
           extract_message ==
             CASE outcome = "zero" -> "Extracted to install_path"
               [] outcome = "nonzero" -> "Extraction failed: stderr"
               [] outcome = "raised" -> "Extraction failed: exception"
               [] outcome = "FileNotFoundError" -> task[t].extract_message
       IN IF outcome = "zero"
          THEN /\ task' = [task EXCEPT ![t].ran = <<cmds[cmd], outcome>>,
                                       ![t].extract_success = TRUE,
                                       ![t].extract_message = extract_message,
                                       ![t].pc = "new_items"]
               /\ fs' = fs \cup {join(req[t].install_path, content.entries[i]) :
                                   i \in DOMAIN content.entries}
          ELSE /\ task' = IF cmd < Len(cmds)
                          THEN [task EXCEPT ![t].ran = <<cmds[cmd], outcome>>,
                                            ![t].extract_message = extract_message,
                                            ![t].cmd = cmd + 1]
                          ELSE [task EXCEPT ![t].ran = <<cmds[cmd], outcome>>,
                                            ![t].extract_message =
                                               IF extract_message = ""
                                               THEN NotInstalledMessage
                                               ELSE extract_message,
                                            ![t].pc = "record"]
               /\ UNCHANGED fs
  /\ UNCHANGED <<platforms_matching, config, content, download_progress,
                 download_cancel_events, event_set, downloads, files, result, req,
                 stream, settings_writes, last_access, cursor, db_call>>

\* not an archive: shutil.move into the install path when the file was
\* staged, and the move may raise; else the file stays where it is
ExtMove(t) ==
  /\ IsExt(t) /\ task[t].pc = "move"
  /\ LET final_file == join(req[t].install_path, task[t].saved_filename)
         downloaded_file == task[t].downloaded_file
     IN IF req[t].staging_path # <<>> /\ req[t].staging_path # req[t].install_path
        THEN \E moved \in BOOLEAN :
               IF moved /\ isfile(downloaded_file)
               THEN /\ files' = Put(Pop(files, downloaded_file), final_file,
                                    files[downloaded_file])
                    /\ task' = [task EXCEPT ![t].downloaded_file = final_file,
                                            ![t].game_folder = final_file,
                                            ![t].extract_message = "Moved to install_path",
                                            ![t].extract_success = TRUE,
                                            ![t].pc = "record"]
               ELSE /\ task' = [task EXCEPT ![t].extract_message = "Failed to move file",
                                            ![t].pc = "record"]
                    /\ UNCHANGED files
        ELSE /\ task' = [task EXCEPT ![t].extract_message = "File saved to downloaded_file",
                                     ![t].game_folder = downloaded_file,
                                     ![t].extract_success = TRUE,
                                     ![t].pc = "record"]
             /\ UNCHANGED files
  /\ UNCHANGED <<platforms_matching, config, content, download_progress,
                 download_cancel_events, event_set, downloads, fs, result, req,
                 stream, settings_writes, last_access, cursor, db_call>>

\* game_folder is any entry of the install path, new or not
ExtNewItems_AnyEntry(t) ==
  /\ IsExt(t) /\ task[t].pc = "new_items"
  /\ LET install_path == req[t].install_path
         new_items == scandir(install_path)
         downloaded_file == task[t].downloaded_file
     IN IF ~task[t].extract_success
        THEN /\ task' = [task EXCEPT ![t].pc = "record"]
             /\ UNCHANGED files
        ELSE /\ \E new_item \in new_items \cup {""} :
                  /\ new_item = "" <=> new_items = {}
                  /\ task' = [task EXCEPT
                                ![t].game_folder =
                                   IF new_items # {} THEN join(install_path, new_item) ELSE @,
                                ![t].extract_message =
                                   IF new_items # {} THEN "Extracted to game_folder" ELSE @,
                                ![t].pc = "record"]
             /\ \E removed \in BOOLEAN :
                  files' = IF removed /\ isfile(downloaded_file)
                           THEN Pop(files, downloaded_file) ELSE files
  /\ UNCHANGED <<platforms_matching, config, content, download_progress,
                 download_cancel_events, event_set, downloads, fs, result, req,
                 stream, settings_writes, last_access, cursor, db_call>>

\* after a successful extraction of an archive: new_items, one of them as
\* game_folder, and os.remove of the archive, whose failure is only logged
ExtNewItems(t) ==
  /\ IsExt(t) /\ task[t].pc = "new_items"
  /\ LET install_path == req[t].install_path
         new_items == scandir(install_path) \ task[t].existing_items
         downloaded_file == task[t].downloaded_file
     IN IF ~task[t].extract_success
        THEN /\ task' = [task EXCEPT ![t].pc = "record"]
             /\ UNCHANGED files
        ELSE /\ \E new_item \in new_items \cup {""} :
                  /\ new_item = "" <=> new_items = {}
                  /\ task' = [task EXCEPT
                                ![t].game_folder =
                                   IF new_items # {} THEN join(install_path, new_item) ELSE @,
                                ![t].extract_message =
                                   IF new_items # {} THEN "Extracted to game_folder" ELSE @,
                                ![t].pc = "record"]
             /\ \E removed \in BOOLEAN :
                  files' = IF removed /\ isfile(downloaded_file)
                           THEN Pop(files, downloaded_file) ELSE files
  /\ UNCHANGED <<platforms_matching, config, content, download_progress,
                 download_cancel_events, event_set, downloads, fs, result, req,
                 stream, settings_writes, last_access, cursor, db_call>>

\* final_path = game_folder if extract_success else downloaded_file;
\* record_download(...)
ExtRecord(t) ==
  /\ IsExt(t) /\ task[t].pc = "record"
  /\ LET rom == Rom(req[t].rom_id)
         final_path == IF task[t].extract_success THEN task[t].game_folder
                       ELSE task[t].downloaded_file
     IN downloads' = record_download(downloads, rom.id, rom.name, task[t].saved_filename,
                                     final_path, rom.platform_id, rom.fs_size_bytes)
  /\ task' = [task EXCEPT ![t].pc = "final"]
  /\ UNCHANGED <<platforms_matching, config, content, download_progress,
                 download_cancel_events, event_set, fs, files, result, req,
                 stream, settings_writes, last_access, cursor, db_call>>

\* the final status heeds the Cancel Signal
ExtFinal_Cancelled(t) ==
  /\ IsExt(t) /\ task[t].pc = "final"
  /\ download_progress' =
       Put(download_progress, req[t].rom_id,
           IF event_set[t]
           THEN [status |-> "cancelled", progress |-> 0, message |-> "Download cancelled"]
           ELSE IF task[t].extract_success
           THEN ExtractedState(task[t].game_folder)
           ELSE CompleteState(task[t].extract_message, task[t].folder))
  /\ last_access' = "locked"
  /\ task' = [task EXCEPT ![t].pc = "finally"]
  /\ UNCHANGED <<platforms_matching, config, content, download_cancel_events,
                 event_set, downloads, fs, files, result, req, stream, settings_writes,
                 cursor, db_call>>

\* the final status: extracted, or complete with the extraction's message
ExtFinal(t) ==
  /\ IsExt(t) /\ task[t].pc = "final"
  /\ download_progress' =
       Put(download_progress, req[t].rom_id,
           IF task[t].extract_success
           THEN ExtractedState(task[t].game_folder)
           ELSE CompleteState(task[t].extract_message, task[t].folder))
  /\ last_access' = "locked"
  /\ task' = [task EXCEPT ![t].pc = "finally"]
  /\ UNCHANGED <<platforms_matching, config, content, download_cancel_events,
                 event_set, downloads, fs, files, result, req, stream, settings_writes,
                 cursor, db_call>>

\* ---------------------------------------------------------- settings

\* settings_platform_matching: the folder and the auto_extract box of the form
SettingsPlatformMatching(local_folder, auto_extract) ==
  /\ settings_writes < MaxSettings
  /\ settings_writes' = settings_writes + 1
  /\ platforms_matching' = [platforms_matching EXCEPT !.rom_folder = local_folder,
                                                       !.auto_extract = auto_extract]
  /\ UNCHANGED <<config, content, download_progress, download_cancel_events,
                 event_set, downloads, fs, req, task, stream,
                 files, result, last_access, cursor, db_call>>

\* api_update_platform_config: only the fields the request carries
UpdatePlatformConfig(fields, auto_extract, paths) ==
  /\ settings_writes < MaxSettings
  /\ settings_writes' = settings_writes + 1
  /\ platforms_matching' =
       [platforms_matching EXCEPT
          !.auto_extract = IF "auto_extract" \in fields THEN auto_extract ELSE @,
          !.install_paths = IF "install_paths" \in fields THEN paths ELSE @]
  /\ UNCHANGED <<config, content, download_progress, download_cancel_events,
                 event_set, downloads, fs, req, task, stream,
                 files, result, last_access, cursor, db_call>>

\* settings_staging_path: writes the key and its legacy twin
SettingsStagingPath(staging_path) ==
  /\ settings_writes < MaxSettings
  /\ settings_writes' = settings_writes + 1
  /\ config' = [download_staging_path |-> staging_path, windows_download_path |-> staging_path]
  /\ UNCHANGED <<platforms_matching, content, download_progress, download_cancel_events,
                 event_set, downloads, fs, req, task, stream,
                 files, result, last_access, cursor, db_call>>

\* -------------------------------------- sync_downloads_with_filesystem
Platform == Rom(41).platform_id
NoRom == [id |-> 0, name |-> "", fs_name |-> "", platform_id |-> "", fs_size_bytes |-> 0]
Last(S) == CHOOSE i \in S : \A j \in S : j <= i

\* the keys the loop over roms puts into rom_by_filename for one rom
FilenameKeys(rom) ==
  LET fs_name == Spelling[rom.fs_name] IN
    {fs_name, lower(fs_name), splitext(fs_name), lower(splitext(fs_name))}
\* rom_by_filename.get(key): a later rom of the list overwrites an earlier one
rom_by_filename(roms, key) ==
  LET hits == {i \in 1..Len(roms) : key \in FilenameKeys(roms[i])} IN
    IF hits = {} THEN NoRom ELSE roms[Last(hits)]

\* the keys the loop puts into rom_by_name for one rom
NameKeys(rom) ==
  {sanitize_for_match(splitext(Spelling[rom.fs_name])), sanitize_for_match(Spelling[rom.name])}
rom_by_name(roms, key) ==
  LET hits == {i \in 1..Len(roms) : key \in NameKeys(roms[i])} IN
    IF hits = {} THEN NoRom ELSE roms[Last(hits)]

\* for entry in os.scandir(platform_folder), in the order of the listing
RECURSIVE scan_platform_folder(_, _, _, _, _)
scan_platform_folder(order, platform_folder, roms, tracked_by_rom_id, changes) ==
  IF order = <<>> THEN changes
  ELSE
    LET item == Head(order)
        item_path == join(platform_folder, item)
        exact == rom_by_filename(roms, Spelling[item])
        rom == IF exact.id # 0 THEN exact
               ELSE rom_by_filename(roms, splitext(Spelling[item]))
        file_size == IF isfile(item_path) THEN files[item_path] ELSE 0
    IN scan_platform_folder(Tail(order), platform_folder, roms, tracked_by_rom_id,
         IF rom.id # 0 /\ rom.id \notin tracked_by_rom_id
         THEN [changes EXCEPT
                 !.table = record_download(@, rom.id, rom.name, item, item_path,
                                           Platform, file_size),
                 !.added = @ + 1]
         ELSE changes)

\* for entry in os.scandir(extract_install_path): directories only
RECURSIVE scan_install_path(_, _, _, _, _)
scan_install_path(order, extract_install_path, roms, tracked_by_rom_id, changes) ==
  IF order = <<>> THEN changes
  ELSE
    LET item == Head(order)
        item_path == join(extract_install_path, item)
        rom == rom_by_name(roms, sanitize_for_match(Spelling[item]))
    IN scan_install_path(Tail(order), extract_install_path, roms, tracked_by_rom_id,
         IF isdir(item_path) /\ rom.id # 0 /\ rom.id \notin tracked_by_rom_id
         THEN [changes EXCEPT
                 !.table = record_download(@, rom.id, rom.name, item, item_path, Platform, 0),
                 !.added = @ + 1]
         ELSE changes)

\* for extract_install_path in install_paths
RECURSIVE scan_install_paths(_, _, _, _, _)
scan_install_paths(install_paths, order, roms, tracked_by_rom_id, changes) ==
  IF install_paths = <<>> THEN changes
  ELSE
    LET extract_install_path == Head(install_paths)
        listed == SelectSeq(order, LAMBDA n : exists(join(extract_install_path, n)))
    IN scan_install_paths(Tail(install_paths), order, roms, tracked_by_rom_id,
         IF extract_install_path # <<>> /\ isdir(extract_install_path)
         THEN scan_install_path(listed, extract_install_path, roms, tracked_by_rom_id, changes)
         ELSE changes)

\* the last loop: tracked rows whose file is gone
missing_tracked(tracked) ==
  {row.rom_id : row \in {r \in tracked : r.file_path # <<>> /\ ~exists(r.file_path)}}

\* the table and the counts after the three passes; folder_order and
\* install_order are the orders in which the listings come
sync_downloads_with_filesystem(table, roms, folder_order, install_order) ==
  LET platform_config == get_platform_config
      platform_folder == platform_config.rom_folder
      install_paths == IF platform_config.auto_extract /\ platform_config.install_paths # <<>>
                       THEN platform_config.install_paths ELSE <<>>
      tracked == {row \in table : row.platform_id = Platform}
      tracked_by_rom_id == {row.rom_id : row \in tracked}
      start == [table |-> table, added |-> 0]
      scanned == IF platform_folder # <<>> /\ isdir(platform_folder)
                 THEN scan_platform_folder(folder_order, platform_folder, roms,
                                           tracked_by_rom_id, start)
                 ELSE start
      installed == scan_install_paths(install_paths, install_order, roms,
                                      tracked_by_rom_id, scanned)
      missing == missing_tracked(tracked)
  IN [table |-> {row \in installed.table : row.rom_id \notin missing},
      added |-> installed.added,
      removed |-> Cardinality(missing)]

\* api_sync_downloads: nothing is done when the catalog lists no rom
api_sync_downloads(table, roms, folder_order, install_order) ==
  IF roms = <<>>
  THEN [table |-> table, added |-> 0, removed |-> 0]
  ELSE sync_downloads_with_filesystem(table, roms, folder_order, install_order)

\* the listings a sync request may see
FolderOrders == Perms(scandir(get_platform_config.rom_folder))
InstallOrders ==
  Perms({n \in DOMAIN Spelling :
           \E i \in DOMAIN get_platform_config.install_paths :
             exists(join(get_platform_config.install_paths[i], n))})

SyncDownloads(roms, folder_order, install_order) ==
  /\ LET changes == api_sync_downloads(downloads, roms, folder_order, install_order) IN
       /\ downloads' = changes.table
       /\ result' = [op |-> "sync", added |-> changes.added, removed |-> changes.removed]
  /\ UNCHANGED <<platforms_matching, config, content, download_progress,
                 download_cancel_events, event_set, fs, files, req, task, stream,
                 settings_writes, last_access, cursor, db_call>>

\* ------------------------------------------------ api_delete_download
\* the path is listed as deleted whether or not it was there to delete
api_delete_download_ListsMissingPath(rom_id, fails) ==
  IF ~is_downloaded(rom_id)
  THEN [status |-> 404, success |-> FALSE, deleted_files |-> <<>>, errors |-> <<>>,
        table |-> downloads, fs |-> fs, files |-> files]
  ELSE
    LET info == get_download_info(rom_id)
        file_path == info.file_path
        tried == file_path # <<>> /\ exists(file_path)
        removed == tried /\ ~fails
    IN [status |-> 200, success |-> TRUE,
        deleted_files |-> IF tried /\ fails THEN <<>> ELSE <<file_path>>,
        errors |-> IF tried /\ fails THEN <<file_path>> ELSE <<>>,
        table |-> remove_download_record(downloads, rom_id),
        fs |-> IF removed /\ isdir(file_path)
               THEN {d \in fs : ~IsPrefix(file_path, d)} ELSE fs,
        files |-> IF removed
                  THEN IF isdir(file_path)
                       THEN [f \in {g \in DOMAIN files : ~IsPrefix(file_path, g)} |-> files[f]]
                       ELSE Pop(files, file_path)
                  ELSE files]

\* the removal's exception is not caught inside: the handler answers 500 and
\* the record stays
api_delete_download_FailsWhole(rom_id, fails) ==
  IF ~is_downloaded(rom_id)
  THEN [status |-> 404, success |-> FALSE, deleted_files |-> <<>>, errors |-> <<>>,
        table |-> downloads, fs |-> fs, files |-> files]
  ELSE
    LET info == get_download_info(rom_id)
        file_path == info.file_path
        tried == file_path # <<>> /\ exists(file_path)
        removed == tried /\ ~fails
    IN IF tried /\ fails
       THEN [status |-> 500, success |-> FALSE, deleted_files |-> <<>>, errors |-> <<>>,
             table |-> downloads, fs |-> fs, files |-> files]
       ELSE [status |-> 200, success |-> TRUE,
             deleted_files |-> IF removed THEN <<file_path>> ELSE <<>>,
             errors |-> <<>>,
             table |-> remove_download_record(downloads, rom_id),
             fs |-> IF removed /\ isdir(file_path)
                    THEN {d \in fs : ~IsPrefix(file_path, d)} ELSE fs,
             files |-> IF removed
                       THEN IF isdir(file_path)
                            THEN [f \in {g \in DOMAIN files : ~IsPrefix(file_path, g)} |-> files[f]]
                            ELSE Pop(files, file_path)
                       ELSE files]

\* the response and the table and disk the handler leaves; fails says
\* whether shutil.rmtree or os.remove raises
api_delete_download(rom_id, fails) ==
  IF ~is_downloaded(rom_id)
  THEN [status |-> 404, success |-> FALSE, deleted_files |-> <<>>, errors |-> <<>>,
        table |-> downloads, fs |-> fs, files |-> files]
  ELSE
    LET info == get_download_info(rom_id)
        file_path == info.file_path
        tried == file_path # <<>> /\ exists(file_path)
        removed == tried /\ ~fails
    IN [status |-> 200, success |-> TRUE,
        deleted_files |-> IF removed THEN <<file_path>> ELSE <<>>,
        errors |-> IF tried /\ fails THEN <<file_path>> ELSE <<>>,
        table |-> remove_download_record(downloads, rom_id),
        fs |-> IF removed /\ isdir(file_path)
               THEN {d \in fs : ~IsPrefix(file_path, d)} ELSE fs,
        files |-> IF removed
                  THEN IF isdir(file_path)
                       THEN [f \in {g \in DOMAIN files : ~IsPrefix(file_path, g)} |-> files[f]]
                       ELSE Pop(files, file_path)
                  ELSE files]

DeleteDownload(rom_id, fails) ==
  /\ LET response == api_delete_download(rom_id, fails) IN
       /\ downloads' = response.table
       /\ fs' = response.fs
       /\ files' = response.files
       /\ result' = [op |-> "delete", rom_id |-> rom_id, status |-> response.status,
                     success |-> response.success,
                     deleted_files |-> response.deleted_files, errors |-> response.errors]
  /\ UNCHANGED <<platforms_matching, config, content, download_progress,
                 download_cancel_events, event_set, req, task, stream, settings_writes, last_access,
                 cursor, db_call>>

\* ------------------------------------------------- the user at the disk
\* the entries a user may put into the rom folder and the install directory
UserFiles == {<<RomsPath, "Game.zip">>, <<RomsPath, "game.zip">>, <<RomsPath, "rom.bin">>,
              <<RomsPath, "notes.txt">>, <<InstallPath, "Rom">>}
UserDirs == {<<RomsPath, "game">>, <<InstallPath, "GAME">>, <<InstallPath, "game">>}
\* those of them on the disk
UserEntries == {e \in UserFiles \cup UserDirs : exists(join(e[1], e[2]))}

DiskCreateFile(dir, name) ==
  /\ isdir(dir) /\ ~exists(join(dir, name))
  /\ Cardinality(UserEntries) < MaxEntries
  /\ files' = Put(files, join(dir, name), RomChunks)
  /\ UNCHANGED <<platforms_matching, config, content, download_progress,
                 download_cancel_events, event_set, downloads, fs, result, req, task,
                 stream, settings_writes, last_access, cursor, db_call>>

DiskCreateDir(dir, name) ==
  /\ isdir(dir) /\ ~exists(join(dir, name))
  /\ Cardinality(UserEntries) < MaxEntries
  /\ fs' = fs \cup {join(dir, name)}
  /\ UNCHANGED <<platforms_matching, config, content, download_progress,
                 download_cancel_events, event_set, downloads, files, result, req, task,
                 stream, settings_writes, last_access, cursor, db_call>>

DiskRemove(dir, name) ==
  /\ exists(join(dir, name))
  /\ fs' = fs \ {join(dir, name)}
  /\ files' = Pop(files, join(dir, name))
  /\ UNCHANGED <<platforms_matching, config, content, download_progress,
                 download_cancel_events, event_set, downloads, result, req, task,
                 stream, settings_writes, last_access, cursor, db_call>>

\* ------------------------------------------------------ specification
Next ==
  \/ \E t \in Transfers, rid \in Items \cup {UnknownRom}, sel \in SelectedPaths :
       StartValidate(t, rid, sel)
  \/ \E t \in Transfers : StartRegisterCancel(t)
  \/ \E t \in Transfers : StartLaunch(t)
  \/ \E rid \in Items : CancelTransfer(rid)
  \/ \E s \in Streams, rid \in Items : PollOpen(s, rid)
  \/ \E s \in Streams : PollRead(s)
  \/ \E s \in Streams : PollPop(s)
  \/ \E t \in Transfers : StdBegin(t)
  \/ \E t \in Transfers : StdPopEarly(t)
  \/ \E t \in Transfers : StdMakedirs(t)
  \/ \E t \in Transfers : StdCall(t)
  \/ \E t \in Transfers : StdExcept(t)
  \/ \E t \in Transfers : StdFinally(t)
  \/ \E t \in Transfers : ExtBegin(t)
  \/ \E t \in Transfers : ExtMakedirs(t)
  \/ \E t \in Transfers : ExtCall(t)
  \/ \E t \in Transfers : ExtExcept(t)
  \/ \E t \in Transfers : ExtFinally(t)
  \/ \E f \in RomFolders, a \in BOOLEAN : SettingsPlatformMatching(f, a)
  \/ \E fields \in SUBSET {"auto_extract", "install_paths"}, a \in BOOLEAN,
        paths \in InstallPathLists : UpdatePlatformConfig(fields, a, paths)
  \/ \E p \in StagingPaths : SettingsStagingPath(p)

Spec == Init /\ [][Next]_vars

\* the steps of transfer t's request handler after validation and of its
\* thread; the interpreter schedules every runnable thread again and again
TransferRun(t) ==
  \/ StartRegisterCancel(t) \/ StartLaunch(t)
  \/ StdBegin(t) \/ StdPopEarly(t) \/ StdMakedirs(t) \/ StdCall(t) \/ StdExcept(t)
  \/ StdFinally(t)
  \/ ExtBegin(t) \/ ExtMakedirs(t) \/ ExtCall(t) \/ ExtExcept(t) \/ ExtFinally(t)

LiveSpec == Init /\ [][Next]_vars /\ \A t \in Transfers : WF_vars(TransferRun(t))

\* the record store and the disk: an installation whose folders exist,
\* with no transfer running
StoreInit ==
  /\ platforms_matching \in [rom_folder : {NoPath, RomsPath}, auto_extract : BOOLEAN,
                              install_paths : {<<>>, <<InstallPath>>}]
  /\ config = [download_staging_path |-> StagePath, windows_download_path |-> StagePath]
  /\ settings_writes = 0
  /\ content = [status |-> 200, intact |-> TRUE]
  /\ download_progress = EmptyDict
  /\ download_cancel_events = EmptyDict
  /\ event_set = [t \in Slots |-> FALSE]
  /\ downloads = {}
  /\ fs = {RomsPath, InstallPath}
  /\ files = EmptyDict
  /\ result = NoResult
  /\ req = [t \in Slots |-> IdleReq]
  /\ task = [t \in Slots |-> NoTask]
  /\ stream = [s \in StreamSlots |-> ClosedStream]
  /\ last_access = "none"
  /\ cursor = NoCursor
  /\ db_call = [c \in Slots |-> NoCall]

StoreNext ==
  \/ \E roms \in RomLists, folder_order \in FolderOrders, install_order \in InstallOrders :
       SyncDownloads(roms, folder_order, install_order)
  \/ \E rid \in Items, fails \in BOOLEAN : DeleteDownload(rid, fails)
  \/ \E e \in UserFiles : DiskCreateFile(e[1], e[2])
  \/ \E e \in UserDirs : DiskCreateDir(e[1], e[2])
  \/ \E e \in UserFiles \cup UserDirs : DiskRemove(e[1], e[2])

StoreSpec == StoreInit /\ [][StoreNext]_vars

\* two transfers side by side: an installation whose store holds the record
\* an earlier sync made for rom.bin
PairInit ==
  /\ platforms_matching \in [rom_folder : {NoPath, RomsPath}, auto_extract : BOOLEAN,
                              install_paths : {<<InstallPath>>}]
  /\ config = [download_staging_path |-> StagePath, windows_download_path |-> StagePath]
  /\ settings_writes = 0
  /\ content = [status |-> 200, intact |-> TRUE]
  /\ download_progress = EmptyDict
  /\ download_cancel_events = EmptyDict
  /\ event_set = [t \in Slots |-> FALSE]
  /\ downloads = record_download({}, 42, Rom(42).name, "rom.bin", join(RomsPath, "rom.bin"),
                                 Platform, RomChunks)
  /\ fs = {RomsPath}
  /\ files = Put(EmptyDict, join(RomsPath, "rom.bin"), RomChunks)
  /\ result = NoResult
  /\ req = [t \in Slots |-> IdleReq]
  /\ task = [t \in Slots |-> NoTask]
  /\ stream = [s \in StreamSlots |-> ClosedStream]
  /\ last_access = "none"
  /\ cursor = NoCursor
  /\ db_call = [c \in Slots |-> NoCall]

TransferNext(slots) ==
  \/ \E t \in slots, rid \in Items, sel \in SelectedPaths : StartValidate(t, rid, sel)
  \/ \E t \in slots : StartRegisterCancel(t)
  \/ \E t \in slots : StartLaunch(t)
  \/ \E rid \in Items : CancelTransfer(rid)
  \/ \E t \in slots : StdBegin(t)
  \/ \E t \in slots : StdPopEarly(t)
  \/ \E t \in slots : StdMakedirs(t)
  \/ \E t \in slots : StdCall(t)
  \/ \E t \in slots : StdExcept(t)
  \/ \E t \in slots : StdFinally(t)
  \/ \E t \in slots : ExtBegin(t)
  \/ \E t \in slots : ExtMakedirs(t)
  \/ \E t \in slots : ExtCall(t)
  \/ \E t \in slots : ExtExcept(t)
  \/ \E t \in slots : ExtFinally(t)
  \/ \E f \in RomFolders, a \in BOOLEAN : SettingsPlatformMatching(f, a)

PairNext == TransferNext(Slots)

PairSpec == PairInit /\ [][PairNext]_vars

\* one transfer watched by two streams
StreamInit ==
  /\ platforms_matching \in [rom_folder : {NoPath, RomsPath}, auto_extract : BOOLEAN,
                              install_paths : {<<InstallPath>>}]
  /\ config = [download_staging_path |-> StagePath, windows_download_path |-> StagePath]
  /\ settings_writes = 0
  /\ content = [status |-> 200, intact |-> TRUE]
  /\ download_progress = EmptyDict
  /\ download_cancel_events = EmptyDict
  /\ event_set = [t \in Slots |-> FALSE]
  /\ downloads = {}
  /\ fs = {}
  /\ files = EmptyDict
  /\ result = NoResult
  /\ req = [t \in Slots |-> IdleReq]
  /\ task = [t \in Slots |-> NoTask]
  /\ stream = [s \in StreamSlots |-> ClosedStream]
  /\ last_access = "none"
  /\ cursor = NoCursor
  /\ db_call = [c \in Slots |-> NoCall]

StreamNext ==
  \/ TransferNext(Transfers)
  \/ \E s \in StreamSlots, rid \in Items : PollOpen(s, rid)
  \/ \E s \in StreamSlots : PollRead(s)
  \/ \E s \in StreamSlots : PollPop(s)

StreamSpec == StreamInit /\ [][StreamNext]_vars

\* a transfer started again while a stream watches the item: an
\* installation set up for direct downloads
RestartInit ==
  /\ platforms_matching = [rom_folder |-> RomsPath, auto_extract |-> FALSE,
                           install_paths |-> <<InstallPath>>]
  /\ config = [download_staging_path |-> StagePath, windows_download_path |-> StagePath]
  /\ settings_writes = 0
  /\ content = [status |-> 200, intact |-> TRUE]
  /\ download_progress = EmptyDict
  /\ download_cancel_events = EmptyDict
  /\ event_set = [t \in Slots |-> FALSE]
  /\ downloads = {}
  /\ fs = {}
  /\ files = EmptyDict
  /\ result = NoResult
  /\ req = [t \in Slots |-> IdleReq]
  /\ task = [t \in Slots |-> NoTask]
  /\ stream = [s \in StreamSlots |-> ClosedStream]
  /\ last_access = "none"
  /\ cursor = NoCursor
  /\ db_call = [c \in Slots |-> NoCall]

RestartNext ==
  \/ TransferNext(Slots)
  \/ \E s \in Streams, rid \in Items : PollOpen(s, rid)
  \/ \E s \in Streams : PollRead(s)
  \/ \E s \in Streams : PollPop(s)

RestartSpec == RestartInit /\ [][RestartNext]_vars

\* the chunk sequences of a response body: chunks of 1..RomChunks bytes, at
\* most RomChunks bytes in all
RECURSIVE sum(_)
sum(chunks) == IF chunks = <<>> THEN 0 ELSE Head(chunks) + sum(Tail(chunks))
Bodies == {b \in UNION {[1..n -> 1..RomChunks] : n \in 0..RomChunks} : sum(b) <= RomChunks}
\* the top-level entries an archive may hold
ArchiveEntries == {<<>>, <<"GAME">>, <<"game", "GAME">>}
\* what the content endpoint serves: the status, the content-length header
\* (0 when absent), the filename of the content-disposition header ("" when
\* absent), the decoded body, and the archive in it
Responses ==
  {[status |-> 404, intact |-> FALSE, length |-> 0, disposition |-> "", body |-> <<>>,
    entries |-> <<>>]}
  \cup [status : {200}, intact : {TRUE}, length : 0..RomChunks, disposition : {"", "Game.7z"},
        body : Bodies, entries : ArchiveEntries]
  \cup [status : {200}, intact : {FALSE}, length : 0..RomChunks, disposition : {"", "Game.7z"},
        body : Bodies, entries : {<<>>}]
\* the disk before the transfer: empty, an install directory with a game
\* folder, or the file of an earlier download
Disks ==
  {[fs |-> {}, files |-> EmptyDict],
   [fs |-> {InstallPath, join(InstallPath, "GAME")}, files |-> EmptyDict],
   [fs |-> {StagePath}, files |-> Put(EmptyDict, join(StagePath, "Game.zip"), RomChunks)],
   [fs |-> {RomsPath}, files |-> Put(EmptyDict, join(RomsPath, "rom.bin"), RomChunks)]}

\* the body of downloadRom and the code of the two tasks behind the call:
\* one transfer whose call carries the keywords the method declares
BodyInit ==
  /\ platforms_matching \in [rom_folder : {RomsPath}, auto_extract : BOOLEAN,
                              install_paths : {<<InstallPath>>}]
  /\ \E p \in StagingPaths :
       config = [download_staging_path |-> p, windows_download_path |-> p]
  /\ settings_writes = 0
  /\ content \in Responses
  /\ download_progress = EmptyDict
  /\ download_cancel_events = EmptyDict
  /\ event_set = [t \in Slots |-> FALSE]
  /\ downloads = {}
  /\ \E disk \in Disks : fs = disk.fs /\ files = disk.files
  /\ result = NoResult
  /\ req = [t \in Slots |-> IdleReq]
  /\ task = [t \in Slots |-> NoTask]
  /\ stream = [s \in StreamSlots |-> ClosedStream]
  /\ last_access = "none"
  /\ cursor = NoCursor
  /\ db_call = [c \in Slots |-> NoCall]

BodyNext ==
  \/ \E t \in Transfers, rid \in Items : StartValidate(t, rid, NoPath)
  \/ \E t \in Transfers : StartRegisterCancel(t)
  \/ \E t \in Transfers : StartLaunch(t)
  \/ \E rid \in Items : CancelTransfer(rid)
  \/ \E t \in Transfers : StdBegin(t)
  \/ \E t \in Transfers : StdMakedirs(t)
  \/ \E t \in Transfers : StdCallDeclared(t)
  \/ \E t \in Transfers : DownloadRomRequest(t)
  \/ \E t \in Transfers : DownloadRomChunk(t)
  \/ \E t \in Transfers : DownloadRomReturn(t)
  \/ \E t \in Transfers : StdRecord(t)
  \/ \E t \in Transfers : StdComplete(t)
  \/ \E t \in Transfers : StdExcept(t)
  \/ \E t \in Transfers : StdFinally(t)
  \/ \E t \in Transfers : ExtBegin(t)
  \/ \E t \in Transfers : ExtMakedirs(t)
  \/ \E t \in Transfers : ExtCallDeclared(t)
  \/ \E t \in Transfers : ExtExtracting(t)
  \/ \E t \in Transfers : ExtSnapshot(t)
  \/ \E t \in Transfers : ExtZipOpen(t)
  \/ \E t \in Transfers : ExtZipEntry(t)
  \/ \E t \in Transfers : ExtRunTool(t)
  \/ \E t \in Transfers : ExtMove(t)
  \/ \E t \in Transfers : ExtNewItems(t)
  \/ \E t \in Transfers : ExtRecord(t)
  \/ \E t \in Transfers : ExtFinal(t)
  \/ \E t \in Transfers : ExtExcept(t)
  \/ \E t \in Transfers : ExtFinally(t)

BodySpec == BodyInit /\ [][BodyNext]_vars

\* PartialSpec: a direct-policy transfer into a rom folder that holds no
\* file, with sync requests for the platform before, during and after it
PartialInit ==
  /\ BodyInit
  /\ ~platforms_matching.auto_extract
  /\ files = EmptyDict

PartialNext ==
  \/ \E t \in Transfers, rid \in Items : StartValidate(t, rid, NoPath)
  \/ \E t \in Transfers : StartRegisterCancel(t)
  \/ \E t \in Transfers : StartLaunch(t)
  \/ \E rid \in Items : CancelTransfer(rid)
  \/ \E t \in Transfers : StdBegin(t)
  \/ \E t \in Transfers : StdMakedirs(t)
  \/ \E t \in Transfers : StdCallDeclared(t)
  \/ \E t \in Transfers : DownloadRomRequest(t)
  \/ \E t \in Transfers : DownloadRomChunk(t)
  \/ \E t \in Transfers : DownloadRomReturn(t)
  \/ \E t \in Transfers : StdRecord(t)
  \/ \E t \in Transfers : StdComplete(t)
  \/ \E t \in Transfers : StdExcept(t)
  \/ \E t \in Transfers : StdFinally(t)
  \/ \E roms \in RomLists, folder_order \in FolderOrders, install_order \in InstallOrders :
       SyncDownloads(roms, folder_order, install_order)

PartialSpec == PartialInit /\ [][PartialNext]_vars

\* ------------------------------- RomM2SteamDeckDatabase: a failed write
\* record_download when cursor.execute or connection.commit raises
\* sqlite3.Error (a locked or read-only database file, a full disk):
\* execute_query logs the error and returns, no row is written and
\* record_download returns to the task as after a write
StdRecordFails(t) ==
  /\ IsStd(t) /\ task[t].pc = "returned"
  /\ task' = [task EXCEPT ![t].pc = "recorded"]
  /\ UNCHANGED <<platforms_matching, config, content, download_progress,
                 download_cancel_events, event_set, downloads, fs, files, result, req,
                 stream, settings_writes, last_access, cursor, db_call>>

ExtRecordFails(t) ==
  /\ IsExt(t) /\ task[t].pc = "record"
  /\ task' = [task EXCEPT ![t].pc = "final"]
  /\ UNCHANGED <<platforms_matching, config, content, download_progress,
                 download_cancel_events, event_set, downloads, fs, files, result, req,
                 stream, settings_writes, last_access, cursor, db_call>>

\* StoreErrorSpec: BodySpec with a record store whose writes may fail
StoreErrorNext ==
  \/ BodyNext
  \/ \E t \in Transfers : StdRecordFails(t)
  \/ \E t \in Transfers : ExtRecordFails(t)

StoreErrorSpec == BodyInit /\ [][StoreErrorNext]_vars

\* ------------------------- RomM2SteamDeckDatabase: threads on one cursor
\* the columns a SELECT * returns, in the order of CREATE TABLE (the
\* autoincrement keys and downloaded_at, which no caller reads, are left out)
Columns(table) ==
  IF table = "config" THEN <<"config_key", "config_value">>
  ELSE <<"rom_id", "rom_name", "filename", "file_path", "platform_id", "file_size">>

\* the selects the handlers and the tasks make: a download by rom_id, the
\* downloads of a platform, the whole config table
Queries ==
  {[table |-> "downloads", where |-> "rom_id", value |-> rid] : rid \in Items}
  \cup {[table |-> "downloads", where |-> "platform_id", value |-> "platform"],
        [table |-> "config", where |-> "", value |-> 0]}

\* cursor.execute(query): the tuples of the statement's result set
statement_rows(query, table) ==
  LET columns == Columns(query.table)
      rows == IF query.table = "config"
              THEN {[config_key |-> k, config_value |-> config[k]] : k \in DOMAIN config}
              ELSE {row \in table : row[query.where] = query.value}
  IN {[i \in 1..Len(columns) |-> row[columns[i]]] : row \in rows}

\* dict(zip(column_names, row))
dict_zip(column_names, row) ==
  LET n == IF Len(column_names) < Len(row) THEN Len(column_names) ELSE Len(row)
  IN [name \in {column_names[i] : i \in 1..n} |->
        row[CHOOSE i \in 1..n : column_names[i] = name]]

\* what the select returns when nothing else touches the cursor
select_as_dict(query, table) ==
  {dict_zip(Columns(query.table), row) : row \in statement_rows(query, table)}

\* the row record_download writes for an item kept in the rom folder
DownloadRow(rid) ==
  LET rom == Rom(rid)
  IN [rom_id |-> rom.id, rom_name |-> rom.name, filename |-> rom.fs_name,
      file_path |-> join(RomsPath, rom.fs_name), platform_id |-> rom.platform_id,
      file_size |-> rom.fs_size_bytes]

\* a thread that is not inside a call
Outside(c) == db_call[c].pc \in {"idle", "returned", "raised"}

\* select_as_dict, first statement: self.cursor.execute(query, condition_values)
SelectExecute(c, query) ==
  /\ Outside(c)
  /\ cursor' = [rows |-> statement_rows(query, downloads),
                description |-> Columns(query.table)]
  /\ db_call' = [db_call EXCEPT ![c] = [pc |-> "executed", query |-> query, rows |-> {},
                                        result |-> {}, seen |-> {downloads}]]
  /\ UNCHANGED <<platforms_matching, config, content, download_progress,
                 download_cancel_events, event_set, downloads, fs, files, result,
                 req, task, stream, settings_writes, last_access>>

\* select_as_dict, second statement: rows = self.cursor.fetchall(), which
\* takes what is left of the result set of the cursor's last statement
SelectFetchall(c) ==
  /\ db_call[c].pc = "executed"
  /\ db_call' = [db_call EXCEPT ![c].pc = "fetched", ![c].rows = cursor.rows]
  /\ cursor' = [cursor EXCEPT !.rows = {}]
  /\ UNCHANGED <<platforms_matching, config, content, download_progress,
                 download_cancel_events, event_set, downloads, fs, files, result,
                 req, task, stream, settings_writes, last_access>>

\* select_as_dict, third statement: the column names are read from
\* self.cursor.description and zipped with the rows; description is None
\* after a statement that returns no rows, and iterating None raises a
\* TypeError, which the `except sqlite3.Error` does not catch
SelectDescription(c) ==
  /\ db_call[c].pc = "fetched"
  /\ db_call' =
       IF cursor.description = <<>>
       THEN [db_call EXCEPT ![c].pc = "raised"]
       ELSE [db_call EXCEPT ![c].pc = "returned",
                            ![c].result = {dict_zip(cursor.description, row) :
                                             row \in db_call[c].rows}]
  /\ UNCHANGED <<platforms_matching, config, content, download_progress,
                 download_cancel_events, event_set, downloads, fs, files, result,
                 req, task, stream, settings_writes, last_access, cursor>>

\* execute_query with the INSERT OR REPLACE of record_download or the DELETE
\* of remove_download_record: self.cursor.execute(...); self.connection.commit().
\* Every select in progress has now seen this table too.
ExecuteQuery(c, rid, delete) ==
  /\ Outside(c)
  /\ downloads' = IF delete THEN remove_download_record(downloads, rid)
                  ELSE insert_or_replace(downloads, DownloadRow(rid))
  /\ cursor' = [rows |-> {}, description |-> <<>>]
  /\ db_call' = [d \in Slots |->
                   IF d = c THEN NoCall
                   ELSE IF Outside(d) THEN db_call[d]
                   ELSE [db_call[d] EXCEPT !.seen = @ \cup {downloads'}]]
  /\ UNCHANGED <<platforms_matching, config, content, download_progress,
                 download_cancel_events, event_set, fs, files, result,
                 req, task, stream, settings_writes, last_access>>

\* CursorSpec: a request handler and a task thread inside the database
\* class at once: get_db hands every thread the one instance, whose
\* connection is opened with check_same_thread=False
CursorInit ==
  /\ platforms_matching = [rom_folder |-> RomsPath, auto_extract |-> FALSE,
                           install_paths |-> <<InstallPath>>]
  /\ config = [download_staging_path |-> StagePath, windows_download_path |-> StagePath]
  /\ settings_writes = 0
  /\ content = [status |-> 200, intact |-> TRUE]
  /\ download_progress = EmptyDict
  /\ download_cancel_events = EmptyDict
  /\ event_set = [t \in Slots |-> FALSE]
  /\ downloads \in SUBSET {DownloadRow(rid) : rid \in Items}
  /\ fs = {RomsPath, InstallPath}
  /\ files = EmptyDict
  /\ result = NoResult
  /\ req = [t \in Slots |-> IdleReq]
  /\ task = [t \in Slots |-> NoTask]
  /\ stream = [s \in StreamSlots |-> ClosedStream]
  /\ last_access = "none"
  /\ cursor = NoCursor
  /\ db_call = [c \in Slots |-> NoCall]

CursorNext ==
  \/ \E c \in Slots, query \in Queries : SelectExecute(c, query)
  \/ \E c \in Slots : SelectFetchall(c)
  \/ \E c \in Slots : SelectDescription(c)
  \/ \E c \in Slots, rid \in Items, delete \in BOOLEAN : ExecuteQuery(c, rid, delete)

CursorSpec == CursorInit /\ [][CursorNext]_vars

\* ------------------------------------------------------------ transfers
Accepted(t) == req[t].pc \in {"registered_progress", "registered_cancel", "returned_200"}
Active(t) == Accepted(t) /\ task[t].pc # "done"
\* no other transfer was accepted for t's item
Alone(t) == \A u \in Slots \ {t} : ~(Accepted(u) /\ req[u].rom_id = req[t].rom_id)
\* no other transfer of t's item is in progress
NoOtherActive(t) == \A u \in Slots \ {t} : ~(Active(u) /\ req[u].rom_id = req[t].rom_id)
\* a step of t's background thread
TaskStep(t) == task[t].pc # "none" /\ task'[t] # task[t]
AllWhitespace(s) == \A i \in 1..Len(s) : s[i] \in Whitespace
\* error messages of a missing path setting or of a failed filesystem call
ConfigOrFsErrors == {"Platform folder not configured", "Download path not configured",
                     "Install path not configured for this platform", "OSError"}
EndedIn(t, statuses) ==
  /\ req[t].rom_id \in DOMAIN download_progress
  /\ download_progress[req[t].rom_id].status \in statuses
EndedInConfigOrFsError(t) ==
  /\ EndedIn(t, {"error"})
  /\ download_progress[req[t].rom_id].error \in ConfigOrFsErrors
\* t's task is over, nothing else touched its item, its Transfer State is still there
Finished(t) ==
  /\ task[t].pc = "done" /\ Alone(t)
  /\ req[t].rom_id \in DOMAIN download_progress
IsArchive(rid) == Rom(rid).fs_name = "Game.zip"

\* ================================================================ claims

\* C1: a StartTransfer that fails validation (auto-extract with an empty
\* install-path list, or no auto-extract and an empty or whitespace-only rom
\* folder) is answered with an error at once and changes nothing: no Transfer
\* State, no Cancel Signal, no Download Record, and no background task, then
\* or later.
C1_RejectedStartChangesNothing ==
  /\ [][\A t \in Transfers :
          ( /\ req[t].pc = "idle" /\ req'[t].pc # "idle"
            /\ HasRom(req'[t].rom_id)
            /\ \/ platforms_matching.auto_extract /\ Len(platforms_matching.install_paths) = 0
               \/ ~platforms_matching.auto_extract /\ AllWhitespace(platforms_matching.rom_folder) )
          => ( /\ req'[t].pc = "returned_400"
               /\ UNCHANGED <<download_progress, download_cancel_events, event_set,
                              downloads, task, fs, files>> )]_vars
  /\ [](\A t \in Transfers : req[t].pc = "returned_400" => task[t].pc = "none")

C1_Witness ==
  \E t \in Transfers :
    /\ req[t].pc = "returned_400"
    /\ ~platforms_matching.auto_extract
    /\ platforms_matching.rom_folder = BlankPath

\* C2: the Transfer State with status starting and a fresh, unset Cancel
\* Signal are registered before the background task takes its first step,
\* and the handler has returned without waiting for the task.
C2_RegisteredBeforeTaskRuns ==
  /\ [](\A t \in Transfers :
          /\ task[t].pc # "none" => req[t].pc = "returned_200"
          /\ (task[t].pc = "begin" /\ Alone(t)) =>
               /\ StatusOf(req[t].rom_id) = "starting"
               /\ CancelFound(req[t].rom_id)
               /\ download_cancel_events[req[t].rom_id] = t)
  /\ [][\A t \in Transfers :
          (req[t].pc = "registered_progress" /\ req'[t].pc = "registered_cancel")
          => ~event_set'[t]]_vars

C2_Witness ==
  \E t \in Transfers :
    /\ req[t].pc = "returned_200" /\ task[t].pc = "begin" /\ Alone(t)
    /\ ~event_set[t]

\* C3: a transfer that was accepted, whose bytes the catalog serves, that is
\* never cancelled and meets no filesystem failure ends in a success status:
\* complete under the direct policy, extracted or complete under the
\* staged-extraction policy.
C3_Original ==
  \A t \in Transfers :
    (Finished(t) /\ content.status = 200 /\ ~event_set[t] /\ ~EndedInConfigOrFsError(t))
    => EndedIn(t, IF IsExt(t) THEN {"extracted", "complete"} ELSE {"complete"})

C5_Original ==
  \A t \in Transfers :
    (Finished(t) /\ event_set[t] /\ Rom(req[t].rom_id).fs_size_bytes > 0
       /\ ~EndedInConfigOrFsError(t))
    => /\ EndedIn(t, {"cancelled"})
       /\ ~is_downloaded(req[t].rom_id)

\* C6: at every point where an item's Transfer State is terminal,
\* CancelTransfer for the item finds no signal (it answers false and sets
\* nothing).
C6_Original ==
  \A rid \in Items : StatusOf(rid) \in TerminalStatuses => ~CancelFound(rid)

\* C7: once a transfer's background task has finished, by whatever path, and
\* no other transfer of the item is in progress, the Cancel Signal map has no
\* entry for the item.
C7_FinishedTaskReleasedSignal ==
  \A t \in Transfers :
    (task[t].pc = "done" /\ NoOtherActive(t)) => ~CancelFound(req[t].rom_id)

C7_Witness ==
  \E t \in Transfers :
    /\ task[t].pc = "done" /\ NoOtherActive(t)
    /\ IsExt(t) /\ event_set[t] /\ task[t].exc = "TypeError"

\* C8: no step of a transfer's task takes the status from extracting back to
\* downloading, and once the status is terminal no later step of the task
\* changes it.
C8_NoBackwardStatus ==
  [][\A t \in Transfers :
       (TaskStep(t) /\ Alone(t)) =>
         /\ StatusOf(req[t].rom_id) = "extracting" => StatusOf(req[t].rom_id)' # "downloading"
         /\ StatusOf(req[t].rom_id) \in TerminalStatuses
              => StatusOf(req[t].rom_id)' = StatusOf(req[t].rom_id)]_vars

C8_Witness ==
  \E t \in Transfers :
    /\ task[t].pc = "done" /\ Alone(t) /\ IsStd(t)
    /\ StatusOf(req[t].rom_id) = "error"

DownloadRaised(t) == task[t].exc = "TypeError"

\* C11: when the download step of a transfer raises, the status becomes
\* error with the captured message, the task does not attempt the download
\* again, and no step of the task after the raise creates or modifies a
\* Download Record.
C11_RaisedDownloadEndsInError ==
  /\ [](\A t \in Transfers :
          (DownloadRaised(t) /\ task[t].pc \in {"finally", "done"} /\ Alone(t)
             /\ req[t].rom_id \in DOMAIN download_progress)
          => /\ download_progress[req[t].rom_id].status = "error"
             /\ download_progress[req[t].rom_id].error = task[t].exc)
  /\ [][\A t \in Transfers :
          DownloadRaised(t) =>
            /\ task'[t].pc \in {"except", "finally", "done"}
            /\ TaskStep(t) => downloads' = downloads]_vars

C11_Witness ==
  \E t \in Transfers :
    /\ DownloadRaised(t) /\ task[t].pc = "done" /\ Alone(t)
    /\ StatusOf(req[t].rom_id) = "error"
    /\ download_progress[req[t].rom_id].error = "TypeError"

\* ------------------------------------------------- records and the disk
\* the recorded path of an item that has a record
RecordedPath(rid) == get_download_info(rid).file_path
InSeq(x, seq) == \E i \in DOMAIN seq : seq[i] = x

\* C12: DeleteDownload for an item that has a Download Record ends with
\* the record removed and a success result, also when removing the recorded
\* file or directory fails; then the failure is in the result's error list,
\* the path is not listed as deleted, and the path is still on disk.
C12_DeleteAlwaysRemovesRecord ==
  \A rid \in Items : is_downloaded(rid) =>
    \A fails \in BOOLEAN :
      LET response == api_delete_download(rid, fails) IN
        /\ RowsOf(response.table, rid) = {}
        /\ response.success /\ response.status = 200
        /\ (fails /\ exists(RecordedPath(rid))) =>
             /\ InSeq(RecordedPath(rid), response.errors)
             /\ ~InSeq(RecordedPath(rid), response.deleted_files)
             /\ RecordedPath(rid) \in response.fs \cup DOMAIN response.files

C12_Witness ==
  /\ result.op = "delete" /\ result.success
  /\ result.errors # <<>> /\ exists(result.errors[1])
  /\ ~is_downloaded(result.rom_id)

\* C13: DeleteDownload for an item whose recorded path is no longer on disk
\* removes the record and succeeds with nothing listed as deleted and no
\* error, whereas a delete that removed the path lists it as deleted.
C13_DeleteOfMissingPath ==
  \A rid \in Items : is_downloaded(rid) =>
    \A fails \in BOOLEAN :
      LET response == api_delete_download(rid, fails) IN
        IF ~exists(RecordedPath(rid))
        THEN /\ RowsOf(response.table, rid) = {}
             /\ response.success /\ response.status = 200
             /\ response.deleted_files = <<>> /\ response.errors = <<>>
        ELSE ~fails => response.deleted_files = <<RecordedPath(rid)>>

C13_Witness ==
  /\ result.op = "delete" /\ result.success
  /\ result.deleted_files = <<>> /\ result.errors = <<>>
  /\ ~is_downloaded(result.rom_id)

\* the rows of the platform whose recorded path is not on disk
StaleRows(table) == {row \in table : row.platform_id = Platform /\ ~exists(row.file_path)}
\* the item the filename index gives for an entry name: by the name, else
\* by the name without its extension
IndexedItem(roms, n) ==
  IF rom_by_filename(roms, Spelling[n]).id # 0
  THEN rom_by_filename(roms, Spelling[n]).id
  ELSE rom_by_filename(roms, splitext(Spelling[n])).id
TrackedItems(table) == {row.rom_id : row \in {r \in table : r.platform_id = Platform}}

\* C14: from every state of the store and the disk and for every catalog
\* list, a second Sync run right after a first one, with nothing changed in
\* between, returns added = 0 and removed = 0.
C14_Original ==
  \A roms \in RomLists, order1 \in FolderOrders, install1 \in InstallOrders :
    LET first == api_sync_downloads(downloads, roms, order1, install1) IN
      \A order2 \in FolderOrders, install2 \in InstallOrders :
        LET second == api_sync_downloads(first.table, roms, order2, install2) IN
          second.added = 0 /\ second.removed = 0

\* C15: after Sync returns, no record of the platform that was there before
\* the call and whose path is not on disk remains, and removed is the
\* number of those records, for every catalog list, the empty one included.
C15_Original ==
  \A roms \in RomLists, order \in FolderOrders, install \in InstallOrders :
    LET changes == api_sync_downloads(downloads, roms, order, install) IN
      /\ changes.table \cap StaleRows(downloads) = {}
      /\ changes.removed = Cardinality(StaleRows(downloads))

\* C16: Sync adds a record for an entry of the rom folder exactly when the
\* filename index gives an item for the entry's name, or for the name
\* without its extension, and the item has no record for the platform; the
\* new record has the entry's path and the file's size, 0 for a directory.
\* A record of an item tracked for the platform is never replaced.
C16_Original ==
  \A roms \in RomLists, order \in FolderOrders, install \in InstallOrders :
    LET changes == api_sync_downloads(downloads, roms, order, install)
        added_rows == changes.table \ downloads
        platform_folder == get_platform_config.rom_folder
    IN /\ \A n \in scandir(platform_folder) :
            LET item_path == join(platform_folder, n)
                item == IndexedItem(roms, n)
            IN (item # 0 /\ item \notin TrackedItems(downloads))
               <=> \E row \in added_rows :
                     /\ row.rom_id = item /\ row.file_path = item_path
                     /\ row.file_size = IF isfile(item_path) THEN files[item_path] ELSE 0
       /\ \A row \in downloads :
            row.platform_id = Platform => RowsOf(changes.table, row.rom_id) \subseteq {row}

\* C18: the store never holds two records of one item, and a write for an
\* item, whether or not it has a record, leaves exactly the written record
\* for it.
C18_OneRecordPerItem ==
  /\ \A rid \in Items : Cardinality(RowsOf(downloads, rid)) <= 1
  /\ \A rid \in Items, e \in UserFiles \cup UserDirs, size \in {0, RomChunks} :
       LET written == record_download(downloads, rid, Rom(rid).name, e[2],
                                      join(e[1], e[2]), Platform, size)
       IN RowsOf(written, rid) =
            {[rom_id |-> rid, rom_name |-> Rom(rid).name, filename |-> e[2],
              file_path |-> join(e[1], e[2]), platform_id |-> Platform, file_size |-> size]}

\* a Sync wrote twice for one item and one record is there
C18_Witness ==
  /\ result.op = "sync" /\ result.added = 2 /\ result.removed = 0
  /\ Cardinality(downloads) = 1

\* the catalog items of the list whose sanitized display name or sanitized
\* extension-stripped filename is the sanitized name n
NamedItems(roms, n) ==
  {roms[i].id : i \in {j \in 1..Len(roms) : sanitize_for_match(Spelling[n]) \in NameKeys(roms[j])}}
\* the install paths Sync is given: those of a platform that extracts
ScannedInstallPaths ==
  IF get_platform_config.auto_extract
  THEN {get_platform_config.install_paths[i] : i \in DOMAIN get_platform_config.install_paths}
  ELSE {}

\* C26: Sync adds a record for an entry of a configured install path
\* exactly when the entry is a directory whose sanitized name is the
\* sanitized display name or the sanitized extension-stripped filename of a
\* catalog item that has no record for the platform; the record is at the
\* directory's path, and a plain file there never gets one.
C26_Original ==
  \A roms \in RomLists, order \in FolderOrders, install \in InstallOrders :
    LET changes == api_sync_downloads(downloads, roms, order, install)
        added_rows == changes.table \ downloads
    IN \A p \in ScannedInstallPaths : \A n \in scandir(p) :
         ( /\ isdir(join(p, n))
           /\ NamedItems(roms, n) \ TrackedItems(downloads) # {} )
         <=> \E row \in added_rows :
               /\ row.file_path = join(p, n)
               /\ row.rom_id \in NamedItems(roms, n) \ TrackedItems(downloads)

\* ------------------------------------------------- streams and frames
\* every transfer of the item was accepted and has finished
TransfersOver(rid) ==
  /\ \E t \in Slots : req[t].rom_id = rid /\ task[t].pc = "done"
  /\ \A t \in Slots : (Accepted(t) /\ req[t].rom_id = rid) => task[t].pc = "done"

\* C17: a stream that was open while the item's transfer ran (it delivered
\* a non-final snapshot) still gets the final snapshot after the transfer
\* has ended: the final Transfer State is there for it to read until it has
\* delivered it, also when another stream polls the same item.
C17_Original ==
  \A s \in StreamSlots :
    (stream[s].pc = "read" /\ stream[s].sent # "none" /\ TransfersOver(stream[s].rom_id))
    => /\ stream[s].rom_id \in DOMAIN download_progress
       /\ download_progress[stream[s].rom_id].status \in TerminalStatuses

\* C27: the poller removes an item's Transfer State only when the entry
\* it removes has a terminal status, also when a transfer of the item is
\* started between the poller's read of a terminal snapshot and its removal.
C27_Original ==
  [][\A s \in StreamSlots :
       ( /\ stream[s].pc = "pop" /\ stream'[s].pc # "pop"
         /\ stream[s].rom_id \in DOMAIN download_progress
         /\ stream[s].rom_id \notin DOMAIN download_progress' )
       => download_progress[stream[s].rom_id].status \in TerminalStatuses]_vars

\* C30: every read and every write of download_progress and of
\* download_cancel_events, by StartTransfer, CancelTransfer, the poller and
\* the tasks, is made while holding download_progress_lock.
C30_Original == last_access # "unlocked"

\* a step of a thread that reads the network, writes a file, extracts an
\* archive entry, runs an external tool or writes the record store
IOStep(t) ==
  /\ TaskStep(t)
  /\ task[t].pc \in {"request", "chunks", "zip_entry", "tools", "move",
                     "new_items", "returned", "record"}

AfterDownload == {"extracting", "extracted", "complete"}

Extracting(t) == IsExt(t) /\ task[t].downloaded_file # NoPath
ExtractionEnds == {"extracted", "complete", "error"}

Only(t) == \A u \in Slots \ {t} : req[u].pc = "idle"
\* t's task has extracted an archive and written the record
ExtractedArchive(t) ==
  /\ IsExt(t) /\ task[t].pc \in {"final", "finally", "done"}
  /\ task[t].extract_success
  /\ is_zip(task[t].saved_filename) \/ is_7z(task[t].saved_filename)
\* the entries of t's install path that its snapshot did not hold
NewEntries(t) == scandir(req[t].install_path) \ task[t].existing_items

ToolStep(t) == task[t].pc = "tools" /\ task'[t] # task[t]

AllToolsFailed(t) ==
  /\ IsExt(t) /\ task[t].pc \in {"record", "final", "finally", "done"}
  /\ task[t].ran # <<>> /\ ~task[t].extract_success

TransferStep(t) == req'[t] # req[t] \/ task'[t] # task[t]

\* C19: no step of a transfer for item A creates, changes or removes the
\* Transfer State, the Cancel Signal (the map entry or the event's flag) or
\* the Download Record of another item B.
C19_TransferTouchesOnlyItsItem ==
  [][\A t \in Slots : TransferStep(t) =>
       \A B \in Items \ {req'[t].rom_id} :
         /\ (B \in DOMAIN download_progress) <=> (B \in DOMAIN download_progress')
         /\ B \in DOMAIN download_progress => download_progress'[B] = download_progress[B]
         /\ (B \in DOMAIN download_cancel_events) <=> (B \in DOMAIN download_cancel_events')
         /\ B \in DOMAIN download_cancel_events =>
              /\ download_cancel_events'[B] = download_cancel_events[B]
              /\ event_set'[download_cancel_events[B]] = event_set[download_cancel_events[B]]
         /\ RowsOf(downloads', B) = RowsOf(downloads, B)]_vars

\* A's transfer has failed after a cancel while B's transfer is under way
\* and B has a record
C19_Witness ==
  \E t, u \in Slots :
    /\ req[t].rom_id = 41 /\ task[t].pc = "done" /\ event_set[t]
    /\ StatusOf(41) = "error"
    /\ req[u].rom_id = 42 /\ Active(u) /\ task[u].pc = "call"
    /\ StatusOf(42) = "starting" /\ CancelFound(42) /\ is_downloaded(42)

\* C20: every accepted transfer's task finishes, and when it is in or past
\* its finally clause the item's status is terminal: no path leaves it at
\* starting, downloading or extracting.
C20_EveryTransferEnds ==
  /\ \A t \in Transfers : Accepted(t) ~> (task[t].pc = "done")
  /\ [](\A t \in Transfers :
          (task[t].pc \in {"finally", "done"} /\ Alone(t)
             /\ req[t].rom_id \in DOMAIN download_progress)
          => download_progress[req[t].rom_id].status \in TerminalStatuses)

C20_Witness ==
  \E t \in Transfers :
    /\ task[t].pc = "done" /\ IsStd(t)
    /\ StatusOf(req[t].rom_id) = "error"
    /\ download_progress[req[t].rom_id].error = "Platform folder not configured"

\* ------------------------------------------------- the record store
\* C32: a select that has returned, returned exactly the rows that match
\* its own query in the table as it stood at some point between the
\* select's start and its end, under its own column names, and no select
\* raises, whatever the other thread runs on the cursor meanwhile.
C32_Original ==
  \A c \in Slots :
    /\ db_call[c].pc # "raised"
    /\ db_call[c].pc = "returned" =>
         \E table \in db_call[c].seen :
           db_call[c].result = select_as_dict(db_call[c].query, table)

\* ----------------------------------------------- two transfers of one item
\* t's background thread has started and has not yet published the status
\* it ends with (after that it only pops the event and returns)
Running(t) == task[t].pc \notin {"none", "pop_early", "finally", "done"}

\* C33: while a transfer's thread is running, download_cancel_events holds,
\* under the item's id, the event this thread was given, so that
\* CancelTransfer finds it and sets the signal of this thread; also when
\* another transfer of the same item was started meanwhile and one of the
\* two has finished.
C33_Original ==
  \A t \in Slots :
    Running(t) =>
      /\ req[t].rom_id \in DOMAIN download_cancel_events
      /\ download_cancel_events[req[t].rom_id] = t

RecordedItems(table) == {row.rom_id : row \in table}

\* C35: the `added` count a sync reports is the number of items that have a
\* record after the sync and had none before it, for every listing order,
\* also when several entries of the rom folder or of the install paths
\* match the same item.
C35_Original ==
  \A roms \in RomLists, order \in FolderOrders, install \in InstallOrders :
    LET changes == api_sync_downloads(downloads, roms, order, install)
    IN changes.added =
         Cardinality(RecordedItems(changes.table) \ RecordedItems(downloads))

resolved_path(t) ==
  join(task[t].folder \o <<"/">>,
       IF content.disposition # "" THEN content.disposition
       ELSE Rom(req[t].rom_id).fs_name)

ConfiguredInstallPaths ==
  {get_platform_config.install_paths[i] : i \in DOMAIN get_platform_config.install_paths}

\* C39: the install path a staged-extraction transfer is started with, into
\* which its task creates directories and extracts, is one of the install
\* paths configured for the platform when the request is served, whatever
\* install_path the request carries.
C39_Original ==
  [][\A t \in Transfers :
       ( /\ req[t].pc = "idle" /\ req'[t].pc = "registered_progress"
         /\ req'[t].auto_extract )
       => req'[t].install_path \in ConfiguredInstallPaths]_vars

====
